---- MODULE Spec2Model ----
(***************************************************************************)
(* A model of the convention-management server: the user and session       *)
(* stores, the session middleware, the requireAuth / requireRole gate and   *)
(* the route handlers of server/routes.ts, one request per client at a      *)
(* time, the requests of different clients interleaving at every await.     *)
(***************************************************************************)
EXTENDS Integers, Sequences, FiniteSets, TLC

VARIABLES
  users,        \* the users table: id -> row
  conventions,  \* the conventions table: id -> row
  convSeq,      \* the serial sequence behind conventions.id
  sessions,     \* the sessions table: sid -> [userId, user, expire]
  nextSid,      \* the next fresh session identifier
  userSeq,      \* how many user ids createUser has generated
  now,          \* the clock, in units of half a session lifetime
  cookie,       \* the session cookie each client holds (0: none)
  req,          \* the request each client has in flight
  workload,     \* which routes the clients of this run call
  contributions,\* the financial_contributions table: id -> row
  events,       \* the administrative_events table: id -> row
  childSeq,     \* the serial sequences of the two tables: [fc, ev]
  disk,         \* the files on disk, each an absolute path (its segments)
  given,        \* history: the lists each convention was created with
  activeTransforms, \* the dev server's count of transforms being awaited
  running,      \* the transformIndexHtml calls that have not settled
  devReq        \* the request each client of the dev catch-all route has in flight

records == <<conventions, convSeq, contributions, events, childSeq, disk, given>>
devVars == <<activeTransforms, running, devReq>>
vars == <<users, sessions, nextSid, userSeq, now, cookie, req, workload, records, devVars>>

----------------------------------------------------------------------------
(* Bounds of the model *)

MaxSid == 2        \* session identifiers that can be generated
MaxNewUsers == 1   \* users createUser can add
MaxTime == 3       \* clock ticks
MaxConv == 4       \* values the conventions.id sequence can give
MaxChild == 1      \* values each of the contribution and event id sequences can give
MaxList == 2       \* elements of a list a client sends
MaxOrphans == 1    \* timed-out transforms that can still be running

(* Program constants *)

admin_001 == 1     \* the ids of the seeded users
editor_001 == 2
viewer_001 == 3
sessionTtl == 2    \* 24 h: two clock units of 12 h
MinPasswordLen == 6

Clients == {"c1", "c2"}
DevClients == {"d1", "d2", "d3", "d4", "d5", "d6"}
Roles == {"admin", "editor", "viewer"}
UserIds == 1..(3 + MaxNewUsers)

----------------------------------------------------------------------------
(* Passwords: bcrypt.hash gives a salted hash that bcrypt.compare accepts   *)
(* for the same plaintext only; a column that holds anything else (a        *)
(* plaintext written as it came) matches nothing.                           *)

BcryptHash(p) == [kind |-> "bcrypt", of |-> p]
Plain(p) == [kind |-> "plain", of |-> p]
BcryptCompare(p, stored) == stored.kind = "bcrypt" /\ stored.of = p

----------------------------------------------------------------------------
(* The users table *)

UserRow(id, username, password, role, email, isActive) ==
  [id |-> id, username |-> username, password |-> password, role |-> role,
   firstName |-> "", lastName |-> "", email |-> email, isActive |-> isActive]

NoUser == UserRow(0, "", Plain(""), "", "", "")

defaultUsers ==
  << UserRow(admin_001, "admin", BcryptHash("admin123"), "admin", "admin@example.com", "true"),
     UserRow(editor_001, "editor", BcryptHash("editor123"), "editor", "editor@example.com", "true"),
     UserRow(viewer_001, "viewer", BcryptHash("viewer123"), "viewer", "viewer@example.com", "true") >>

\* A row violates a constraint of the table: the primary key, or the unique
\* username, or the unique email (NULL emails never collide).
UserConflict(tbl, row, except) ==
  \E i \in DOMAIN tbl \ except :
     \/ i = row.id
     \/ tbl[i].username = row.username
     \/ (row.email # "" /\ tbl[i].email = row.email)

InsertUser(tbl, row) == [i \in DOMAIN tbl \cup {row.id} |-> IF i = row.id THEN row ELSE tbl[i]]

RECURSIVE SeedUsers(_, _)
SeedUsers(tbl, k) ==
  IF k > Len(defaultUsers) THEN tbl
  ELSE SeedUsers(IF UserConflict(tbl, defaultUsers[k], {}) THEN tbl
                 ELSE InsertUser(tbl, defaultUsers[k]), k + 1)

getUser(id) == IF id \in DOMAIN users THEN users[id] ELSE NoUser

getUserByUsername(username) ==
  IF \E i \in DOMAIN users : users[i].username = username
  THEN users[CHOOSE i \in DOMAIN users : users[i].username = username]
  ELSE NoUser

\* A variant of validateUser that does not look at isActive
validateUser_ignoresActive(username, password) ==
  LET user == getUserByUsername(username) IN
  IF user = NoUser THEN NoUser
  ELSE IF BcryptCompare(password, user.password) THEN user ELSE NoUser

validateUser(username, password) ==
  LET user == getUserByUsername(username) IN
  IF user = NoUser \/ user.isActive # "true" THEN NoUser
  ELSE IF BcryptCompare(password, user.password) THEN user ELSE NoUser

----------------------------------------------------------------------------
(* The conventions table (the columns the user store depends on) *)

\* SQL values: NULL, or a value
SqlNull == [isNull |-> TRUE, val |-> 0]
SqlVal(v) == [isNull |-> FALSE, val |-> v]

\* the columns that hold a list as a text
ListColumns == {"province", "partners", "attachments"}

\* a row with its list columns NULL; amount is NOT NULL in the table
ConvRow(id, number, amount, createdBy) ==
  [id |-> id, conventionNumber |-> number, amount |-> amount, createdBy |-> createdBy,
   province |-> SqlNull, partners |-> SqlNull, attachments |-> SqlNull]

sampleConventions == << [conventionNumber |-> <<"4", "7", "/", "2", "0", "2", "1">>, amount |-> "6750000.00", createdBy |-> admin_001],
                        [conventionNumber |-> <<"2", "1", "/", "2", "0", "2", "2">>, amount |-> "1500000.00", createdBy |-> editor_001] >>

\* A variant of ConvConflict that finds no conflict
ConvConflict_never(tbl, number, except) == FALSE

\* conventions.convention_number is UNIQUE
ConvConflict(tbl, number, except) ==
  \E i \in DOMAIN tbl \ except : tbl[i].conventionNumber = number

\* The seed's inserts: each takes a value of the id sequence, and a row that
\* collides with an existing one is skipped.
RECURSIVE SeedConventions(_, _, _)
SeedConventions(tbl, seq, k) ==
  IF k > Len(sampleConventions) THEN [tbl |-> tbl, seq |-> seq]
  ELSE LET c == sampleConventions[k]
           id == seq + 1 IN
       SeedConventions(IF ConvConflict(tbl, c.conventionNumber, {}) THEN tbl
                       ELSE [i \in DOMAIN tbl \cup {id} |->
                               IF i = id THEN ConvRow(id, c.conventionNumber, SqlVal(c.amount), c.createdBy) ELSE tbl[i]],
                       id, k + 1)

----------------------------------------------------------------------------
(* Routes of registerRoutes and their middleware chains *)

PublicRoutes == {"login", "logout"}

UserRoutes == {"usersList", "usersCreate", "usersDelete", "usersUpdate"}

ConventionReadRoutes ==
  {"convList", "convStats", "convSearch", "convGet", "convDownload", "exportExcel",
   "statsBySector", "statsByStatus", "statsBySectorCost", "statsByDomain",
   "statsByProvince", "statsByYear", "statsByProgramme"}

ConventionWriteRoutes == {"convCreate", "convUpdate", "convDelete"}

ContributionWriteRoutes == {"fcCreate", "fcUpdate", "fcDelete"}

\* The administrative-event routes the client calls: the list for any
\* authenticated role, the mutations for admin and editor
EventReadRoutes == {"evList"}
EventWriteRoutes == {"evCreate", "evUpdate", "evDelete"}

\* requireAuth and nothing else
AuthOnlyRoutes == {"authUser", "upload", "uploadsGet", "fcList"} \cup ConventionReadRoutes \cup EventReadRoutes

\* requireAuth, requireRole([...])
RoleRoutes ==
  UserRoutes \cup ConventionWriteRoutes \cup ContributionWriteRoutes \cup {"uploadDelete"}
    \cup EventWriteRoutes

Routes == PublicRoutes \cup AuthOnlyRoutes \cup RoleRoutes

\* the routes of the conventions, their contributions, their events and their files
RecordRoutes == Routes \ (PublicRoutes \cup UserRoutes \cup {"authUser"})

\* the HTTP method a route is registered with
Method(route) ==
  CASE route \in {"login", "logout", "usersCreate", "convCreate", "fcCreate", "evCreate", "upload"} -> "POST"
    [] route \in {"usersUpdate", "convUpdate", "fcUpdate", "evUpdate"} -> "PUT"
    [] route \in {"usersDelete", "convDelete", "fcDelete", "evDelete", "uploadDelete"} -> "DELETE"
    [] OTHER -> "GET"

\* A variant of allowedRoles that lets every role through
allowedRoles_anyRole(route) == Roles

allowedRoles(route) ==
  IF route \in UserRoutes THEN {"admin"} ELSE {"admin", "editor"}

----------------------------------------------------------------------------
(* Requests *)

IdleReq ==
  [pc |-> "idle", route |-> "", sid |-> 0, loaded |-> FALSE, sessAge |-> 0,
   userId |-> 0, user |-> NoUser, param |-> 0, body |-> << >>,
   status |-> 0, message |-> "", error |-> "", objects |-> {}, listing |-> << >>,
   steps |-> <<>>]

\* A variant of Pick that passes the whole row
Pick_whole(row, keys) == row

Pick(row, keys) == [k \in keys |-> row[k]]

\* res.status(status).json(body): the response, which the logging middleware
\* captures as it is.
Reply(r, status, message, objects) ==
  [r EXCEPT !.pc = "done", !.status = status, !.message = message, !.objects = objects]

Step(r, s) == [r EXCEPT !.steps = Append(@, s)]

\* The handler starts: it reads the route parameter and the body of the request
Handle(r, param, body) == [Step(r, "handler") EXCEPT !.param = param, !.body = body]

----------------------------------------------------------------------------
(* The session middleware (express-session over connect-pg-simple, as        *)
(* getSession configures it: resave false, saveUninitialized false, rolling  *)
(* unset, cookie.maxAge = sessionTtl).                                       *)

\* store.get: a row is returned while its expire has not passed
SessionLive(sid) ==
  sid \in DOMAIN sessions /\ sessions[sid].expire >= now

\* store.touch at the end of a response whose session was loaded and left
\* unmodified: the row's expire becomes now + maxAge
Touch(tbl, sid) ==
  IF sid \in DOMAIN tbl THEN [tbl EXCEPT ![sid].expire = now + sessionTtl] ELSE tbl

\* The end of a response: the loaded session, if the request still has it, is touched
ResEnd(r) == IF r.loaded THEN Touch(sessions, r.sid) ELSE sessions

\* store.set at the end of a response that modified the session (the login);
\* created records when the login issued the session to its user
SaveSession(tbl, sid, user) ==
  [s \in DOMAIN tbl \cup {sid} |->
     IF s = sid
     THEN [userId |-> user.id, user |-> user, expire |-> now + sessionTtl, created |-> now]
     ELSE tbl[s]]

\* A variant of DestroySession that leaves the row in the store
DestroySession_keeps(tbl, sid) == tbl

\* store.destroy: the row is deleted; a row that is already gone is no error
DestroySession(tbl, sid) == [s \in DOMAIN tbl \ {sid} |-> tbl[s]]

----------------------------------------------------------------------------
(* Workloads: the clients that are active in a run, the routes they call    *)
(* and the bodies and parameters they send.  Every run belongs to one       *)
(* workload; the specification covers them all.                             *)

Workloads == {"roles", "accounts", "passwords", "clock", "conventions", "attachments", "numbers", "cascade", "listing", "lists", "reseed", "partial"}

WorkloadClients(w) == IF w \in {"roles", "accounts", "numbers", "cascade", "reseed"} THEN Clients ELSE {"c1"}

\* In the workloads of two clients, c1 is the administration console and c2 a
\* user whose account the console changes.
WorkloadRoutes(w, c) ==
  CASE w = "roles"       -> IF c = "c1" THEN {"login", "usersUpdate"} ELSE {"login", "usersList"}
    [] w = "accounts"    -> IF c = "c1" THEN {"login", "usersCreate", "usersDelete", "usersUpdate"}
                            ELSE {"login", "authUser"}
    [] w = "passwords"   -> {"login", "authUser", "usersUpdate"}
    [] w = "clock"       -> {"login", "logout", "authUser"}
    [] w = "conventions" -> {"login"} \cup ConventionReadRoutes \cup ConventionWriteRoutes \cup UserRoutes
    [] w = "attachments" -> {"login"} \cup (RecordRoutes \ (ConventionReadRoutes \cup ConventionWriteRoutes))
    [] w = "numbers"     -> {"login", "convCreate", "convUpdate"}
    [] w = "listing"     -> {"login", "convCreate", "convList", "convStats"}
    [] w = "lists"       -> {"login", "convCreate", "convGet", "convList"}
    [] w = "partial"     -> {"login", "convUpdate", "convGet"}
    [] w = "reseed"      -> IF c = "c1" THEN {"login", "usersDelete", "usersUpdate"}
                            ELSE {"login", "convDelete", "convGet"}
    [] w = "cascade"     -> IF c = "c1" THEN {"login", "fcCreate", "evCreate"}
                            ELSE {"login", "convDelete", "fcList", "evList"}

LoginBodies(w) ==
  CASE w = "roles"     -> { [username |-> "admin", password |-> "admin123"],
                            [username |-> "viewer", password |-> "viewer123"] }
    [] w = "accounts"  -> { [username |-> "admin", password |-> "admin123"],
                            [username |-> "viewer", password |-> "viewer123"],
                            [username |-> "newuser", password |-> "secret9"],
                            [username |-> "admin", password |-> "secret9"] }
    [] w = "passwords" -> [username : {"admin", "viewer", "ghost", ""},
                           password : {"admin123", "viewer123", "secret9", ""}]
    [] w = "clock"     -> { [username |-> "viewer", password |-> "viewer123"],
                            [username |-> "viewer", password |-> "secret9"] }
    [] w = "numbers"   -> { [username |-> "editor", password |-> "editor123"] }
    [] w = "cascade"   -> { [username |-> "editor", password |-> "editor123"] }
    [] w = "listing"   -> { [username |-> "editor", password |-> "editor123"] }
    [] w = "lists"     -> { [username |-> "editor", password |-> "editor123"] }
    [] w = "reseed"    -> { [username |-> "admin", password |-> "admin123"] }
    [] w = "partial"   -> { [username |-> "editor", password |-> "editor123"] }
    [] OTHER           -> { [username |-> "admin", password |-> "admin123"],
                            [username |-> "editor", password |-> "editor123"],
                            [username |-> "viewer", password |-> "viewer123"] }

CreateUserBodies(w) ==
  IF w = "conventions" THEN { [password |-> "secret9", role |-> "admin"] } ELSE
  { [username |-> "newuser", password |-> "secret9", role |-> "admin", email |-> "new@example.com"],
    [username |-> "newuser", password |-> "secret9"],
    [username |-> "admin", password |-> "secret9", role |-> "admin"],
    [username |-> "newuser", password |-> "abc", role |-> "admin"],
    [password |-> "secret9", role |-> "admin"] }

UpdateUserBodies(w) ==
  CASE w = "roles"     -> { [role |-> "viewer"], [role |-> "admin"], [role |-> "owner"] }
    [] w = "accounts"  -> { [isActive |-> "false"] }
    [] w = "passwords" -> { [password |-> "secret9"], [password |-> "abc"] }
    [] w = "reseed"    -> { [username |-> "reader"] }
    [] OTHER           -> { [password |-> "abc"] }

\* the :id of PUT and DELETE /api/users/:id
UserIdParams(w) ==
  CASE w = "roles"     -> {admin_001, viewer_001}
    [] w = "accounts"  -> UserIds
    [] w = "passwords" -> {viewer_001}
    [] OTHER           -> {viewer_001}

\* the keys createUserSchema picks; z.object strips every other key
createUserKeys == {"username", "password", "role", "firstName", "lastName", "email"}

Strip(body, keys) == [k \in DOMAIN body \cap keys |-> body[k]]

\* createUserSchema.parse fails (ZodError)
CreateUserInvalid(body) ==
  \/ {"username", "password"} \ DOMAIN body # {}
  \/ Len(body.password) < MinPasswordLen

\* createUserSchema.partial().parse fails (ZodError)
UpdateUserInvalid(body) ==
  "password" \in DOMAIN body /\ Len(body.password) < MinPasswordLen

\* loginSchema.parse fails (ZodError)
LoginInvalid(body) == body.username = "" \/ body.password = ""

----------------------------------------------------------------------------
(* Storage operations on users *)

\* the row createUser inserts
createUserRow(userData, id) ==
  UserRow(id, userData.username, BcryptHash(userData.password),
          IF "role" \in DOMAIN userData THEN userData.role ELSE "viewer",
          IF "email" \in DOMAIN userData THEN userData.email ELSE "",
          "true")

\* the row updateUser leaves: set({...userData, updatedAt}), the columns as given
updateUserRow(row, userData) ==
  [k \in DOMAIN row |->
     IF k \in DOMAIN userData
     THEN (IF k = "password" THEN Plain(userData[k]) ELSE userData[k])
     ELSE row[k]]

\* conventions.created_by REFERENCES users(id): a referenced user cannot be deleted
UserReferenced(id) == \E i \in DOMAIN conventions : conventions[i].createdBy = id

deleteUserRow(tbl, id) == [i \in DOMAIN tbl \ {id} |-> tbl[i]]

----------------------------------------------------------------------------
(* Route parameters and bodies of the record routes *)

Digits == {"0", "1", "2", "3", "4", "5", "6", "7", "8", "9"}
DigitVal(d) == CASE d = "0" -> 0 [] d = "1" -> 1 [] d = "2" -> 2 [] d = "3" -> 3 [] d = "4" -> 4
                 [] d = "5" -> 5 [] d = "6" -> 6 [] d = "7" -> 7 [] d = "8" -> 8 [] d = "9" -> 9

\* what parseInt gives for a text with no leading digit
NaN == -1

\* parseInt of a text (a sequence of characters): the value of its longest
\* prefix of digits, NaN when that prefix is empty
RECURSIVE ParseDigits(_, _, _)
ParseDigits(text, k, acc) ==
  IF k > Len(text) \/ text[k] \notin Digits THEN acc
  ELSE ParseDigits(text, k + 1, 10 * acc + DigitVal(text[k]))

parseInt(text) ==
  IF text = << >> \/ text[1] \notin Digits THEN NaN ELSE ParseDigits(text, 1, 0)

\* the :id and :conventionId the clients send
IdParams == { <<"1">>, <<"3">>, <<"a", "b", "c">>, <<"1", "x">> }

\* the elements of the lists the clients send: a plain text, and texts holding
\* a comma, nothing, a leading space, a quote, a backslash
listElements == { <<"A">>, <<"A", ",", "B">>, <<>>, <<" ", "A">>, <<"\"">>, <<"\\">> }

\* the lists of at most MaxList elements
ListsOf(elements) == UNION { [1..n -> elements] : n \in 0..MaxList }

\* the bodies of POST /api/conventions; conventionNumber is a text, a sequence
\* of characters
CreateConventionBodies(w) ==
  IF w = "lists"
  THEN { [k \in {"conventionNumber", "amount"} \cup fields |->
            IF k = "conventionNumber" THEN <<"9", "9", "/", "2", "0", "2", "5">>
            ELSE IF k = "amount" THEN "100.00"
            ELSE IF k = "province" THEN province
            ELSE IF k = "partners" THEN <<<<"X">>>> ELSE <<<<"A">>, <<"B">>>>] :
         province \in ListsOf(listElements),
         fields \in {{}, {"province"}, ListColumns} }
  ELSE IF w = "listing"
  THEN { [conventionNumber |-> number, amount |-> "100.00"] :
           number \in { <<"1", "0", "0", "/", "2", "0", "2", "1">>, <<"0", "4", "7", "/", "2", "0", "2", "1">>,
                        <<"4", "7">>, <<"/", "2", "0", "2", "2">>, <<"a", "b", "c">> } }
  ELSE { [conventionNumber |-> <<"4", "7", "/", "2", "0", "2", "1">>, amount |-> "100.00"],
         [conventionNumber |-> <<"9", "9", "/", "2", "0", "2", "5">>, amount |-> "100.00", createdBy |-> viewer_001],
         [description |-> "no number"] }

\* the bodies of PUT /api/conventions/:id: two with an amount, one without
UpdateConventionBodies == { [conventionNumber |-> <<"2", "1", "/", "2", "0", "2", "2">>, amount |-> "100.00"],
                            [conventionNumber |-> <<"9", "9", "/", "2", "0", "2", "5">>],
                            [description |-> "no number", amount |-> "100.00", createdBy |-> viewer_001] }

\* A variant of insertConventionKeys that keeps createdBy
insertConventionKeys_withCreatedBy == {"conventionNumber", "amount", "description", "createdBy"} \cup ListColumns

\* the keys of insertConventionSchema: the columns of the table less id,
\* createdBy, createdAt and updatedAt; z.object strips every other key
insertConventionKeys == {"conventionNumber", "amount", "description"} \cup ListColumns

\* insertConventionSchema.parse fails (ZodError): a required column is missing
ConventionInvalid(body) == {"conventionNumber", "amount"} \ DOMAIN body # {}

\* upload.array('files', 5)
maxCount == 5

\* one multipart upload: the files field, each file with its type and size class
UploadBatches ==
  { << >>,
    << [originalname |-> "a.pdf", mimetype |-> "application/pdf", size |-> "small"] >>,
    << [originalname |-> "a.exe", mimetype |-> "application/octet-stream", size |-> "small"] >>,
    << [originalname |-> "b.pdf", mimetype |-> "application/pdf", size |-> "huge"] >>,
    [i \in 1..(maxCount + 1) |->
       [originalname |-> "a.pdf", mimetype |-> "application/pdf", size |-> "small"]] }

\* the decoded :filename of a request: a path, relative or absolute
RelPath(segs) == [abs |-> FALSE, segs |-> segs]
AbsPath(segs) == [abs |-> TRUE, segs |-> segs]

FilenameParams ==
  { RelPath(<<"a.pdf">>), RelPath(<<"old.pdf">>), RelPath(<<"sub", "..", "old.pdf">>),
    RelPath(<<".">>), RelPath(<<"v1..2.pdf">>), RelPath(<<"\\old.pdf">>),
    RelPath(<<"..", "..", "etc", "passwd">>), RelPath(<<"sub", "..", "..", "server.js">>),
    AbsPath(<<"etc", "passwd">>), AbsPath(<<"app", "uploads", "old.pdf">>) }

allowedTypes ==
  {"application/pdf", "application/msword",
   "application/vnd.openxmlformats-officedocument.wordprocessingml.document",
   "application/vnd.ms-excel",
   "application/vnd.openxmlformats-officedocument.spreadsheetml.sheet",
   "image/jpeg", "image/png", "image/gif"}

fileFilter(file) == file.mimetype \in allowedTypes

\* uploadsDir = path.join(process.cwd(), 'uploads'), the process running in /app
uploadsDir == <<"app", "uploads">>

\* the files present when the server starts, inside and outside the directory
diskAtStart ==
  { <<"etc", "passwd">>, <<"app", "server.js">>,
    <<"app", "uploads", "old.pdf">>, <<"app", "uploads", "v1..2.pdf">> }

\* the names holding the substring '..', and those starting with a backslash
DotDotNames == {"..", "v1..2.pdf"}
BackslashNames == {"\\old.pdf"}

Range(s) == {s[i] : i \in DOMAIN s}
IsPrefix(s, t) == Len(s) <= Len(t) /\ \A i \in DOMAIN s : s[i] = t[i]

\* path.normalize on the segments: '.' is dropped, '..' removes the segment
\* before it, is dropped at the root and is kept at the head of a relative path
RECURSIVE NormalizeSegs(_, _, _)
NormalizeSegs(segs, abs, acc) ==
  IF segs = << >> THEN acc
  ELSE LET seg == Head(segs) rest == Tail(segs) IN
       IF seg = "." THEN NormalizeSegs(rest, abs, acc)
       ELSE IF seg = ".."
       THEN IF acc # << >> /\ acc[Len(acc)] # ".."
            THEN NormalizeSegs(rest, abs, SubSeq(acc, 1, Len(acc) - 1))
            ELSE IF abs THEN NormalizeSegs(rest, abs, acc)
            ELSE NormalizeSegs(rest, abs, Append(acc, seg))
       ELSE NormalizeSegs(rest, abs, Append(acc, seg))

normalize(p) == [abs |-> p.abs, segs |-> NormalizeSegs(p.segs, p.abs, << >>)]

\* path.resolve(dir, p): an absolute p stands for itself, a relative one is
\* taken from dir; the result is an absolute normalized path
resolve(dir, p) ==
  IF p.abs THEN NormalizeSegs(p.segs, TRUE, << >>)
  ELSE NormalizeSegs(dir \o p.segs, TRUE, << >>)

\* deleteFile without its two checks
deleteFile_unchecked(files, filePath) ==
  files \ {resolve(uploadsDir, normalize(filePath))}

\* deleteFile: a name with a navigation sequence or a leading separator, or one
\* that resolves outside uploadsDir, is left alone; unlinkSync removes a file,
\* and its failure on a directory is swallowed like every other error
deleteFile(files, filePath) ==
  LET normalizedPath == normalize(filePath)
      fullPath == resolve(uploadsDir, normalizedPath)
  IN IF \/ Range(normalizedPath.segs) \cap DotDotNames # {}
        \/ normalizedPath.abs
        \/ normalizedPath.segs # << >> /\ normalizedPath.segs[1] \in BackslashNames
     THEN files
     ELSE IF ~IsPrefix(uploadsDir, fullPath) THEN files
     ELSE files \ {fullPath}

----------------------------------------------------------------------------
(* Storage operations on conventions and their children *)

\* JSON.stringify of a list of texts: each element quoted, with the quote and
\* the backslash escaped, the elements separated by commas, in brackets
RECURSIVE JsonEscape(_)
JsonEscape(text) ==
  IF text = << >> THEN << >>
  ELSE (IF Head(text) \in {"\"", "\\"} THEN <<"\\", Head(text)>> ELSE <<Head(text)>>)
         \o JsonEscape(Tail(text))

JsonQuote(text) == <<"\"">> \o JsonEscape(text) \o <<"\"">>

RECURSIVE JsonItems(_)
JsonItems(list) ==
  IF list = << >> THEN << >>
  ELSE JsonQuote(Head(list)) \o (IF Tail(list) = << >> THEN << >> ELSE <<",">> \o JsonItems(Tail(list)))

\* A variant of JsonStringify that joins the elements with commas, unquoted
RECURSIVE JsonStringify_joined(_)
JsonStringify_joined(list) ==
  IF list = << >> THEN << >>
  ELSE Head(list) \o (IF Tail(list) = << >> THEN << >> ELSE <<",">> \o JsonStringify_joined(Tail(list)))

JsonStringify(list) == <<"[">> \o JsonItems(list) \o <<"]">>

\* JSON.parse over the characters of the texts here (brackets, quote,
\* backslash, comma, space, digits, letters other than those of the escapes
\* and of true, false, null): a value is a string, a number or an array of
\* values; the result holds the value (a text, an integer, a list) and the
\* position after it
JsonFail == [ok |-> FALSE, kind |-> "", val |-> << >>, next |-> 0]
JsonValue(kind, val, next) == [ok |-> TRUE, kind |-> kind, val |-> val, next |-> next]

RECURSIVE SkipWs(_, _)
SkipWs(text, k) == IF k <= Len(text) /\ text[k] = " " THEN SkipWs(text, k + 1) ELSE k

RECURSIVE ParseString(_, _, _)
ParseString(text, k, acc) ==
  IF k > Len(text) THEN JsonFail
  ELSE IF text[k] = "\"" THEN JsonValue("string", acc, k + 1)
  ELSE IF text[k] = "\\"
  THEN IF k + 1 <= Len(text) /\ text[k + 1] \in {"\"", "\\", "/"}
       THEN ParseString(text, k + 2, Append(acc, text[k + 1]))
       ELSE JsonFail
  ELSE ParseString(text, k + 1, Append(acc, text[k]))

RECURSIVE DigitsEnd(_, _)
DigitsEnd(text, k) == IF k <= Len(text) /\ text[k] \in Digits THEN DigitsEnd(text, k + 1) ELSE k

\* a number starts with a digit; after a leading 0 it ends
ParseNumber(text, k) ==
  LET end == IF text[k] = "0" THEN k + 1 ELSE DigitsEnd(text, k) IN
  JsonValue("number", ParseDigits(SubSeq(text, k, end - 1), 1, 0), end)

RECURSIVE ParseValue(_, _)
RECURSIVE ParseElements(_, _, _)
ParseValue(text, k0) ==
  LET k == SkipWs(text, k0) IN
  IF k > Len(text) THEN JsonFail
  ELSE IF text[k] = "\"" THEN ParseString(text, k + 1, << >>)
  ELSE IF text[k] \in Digits THEN ParseNumber(text, k)
  ELSE IF text[k] = "["
  THEN LET j == SkipWs(text, k + 1) IN
       IF j <= Len(text) /\ text[j] = "]" THEN JsonValue("array", << >>, j + 1)
       ELSE ParseElements(text, k + 1, << >>)
  ELSE JsonFail

ParseElements(text, k, acc) ==
  LET v == ParseValue(text, k) IN
  IF ~v.ok THEN JsonFail
  ELSE LET j == SkipWs(text, v.next) IN
       IF j > Len(text) THEN JsonFail
       ELSE IF text[j] = "," THEN ParseElements(text, j + 1, Append(acc, v.val))
       ELSE IF text[j] = "]" THEN JsonValue("array", Append(acc, v.val), j + 1)
       ELSE JsonFail

JsonParse(text) ==
  LET v == ParseValue(text, 1) IN
  IF v.ok /\ SkipWs(text, v.next) > Len(text) THEN v ELSE JsonFail

\* String(n) of a non-negative integer
RECURSIVE ToDecimal(_)
ToDecimal(n) ==
  LET d == CHOOSE c \in Digits : DigitVal(c) = n % 10 IN
  IF n < 10 THEN <<d>> ELSE Append(ToDecimal(n \div 10), d)

\* String(parsed) of a parsed value that is not an array
String(parsed) == IF parsed.kind = "number" THEN ToDecimal(parsed.val) ELSE parsed.val

\* text.trim()
RECURSIVE trim(_)
trim(text) ==
  IF text = << >> THEN text
  ELSE IF Head(text) = " " THEN trim(Tail(text))
  ELSE IF text[Len(text)] = " " THEN trim(SubSeq(text, 1, Len(text) - 1))
  ELSE text

NonEmpty(text) == text # << >>

\* amount: data.amount !== undefined && data.amount !== null && data.amount !== ""
\*           ? String(data.amount) : null
amountColumn(data) ==
  IF "amount" \in DOMAIN data /\ data.amount # "" THEN SqlVal(data.amount) ELSE SqlNull

\* the row createConvention inserts: values({ ...conventionData, province:
\* conventionData.province ? JSON.stringify(conventionData.province) : null,
\* ..., createdBy })
createConventionRow(conventionData, createdBy, id) ==
  LET values == [k \in DOMAIN conventionData \cup {"createdBy"} |->
                  IF k = "createdBy" THEN createdBy ELSE conventionData[k]]
      row == ConvRow(id, values.conventionNumber, amountColumn(conventionData), values.createdBy)
  IN [k \in DOMAIN row |->
        IF k \in ListColumns
        THEN IF k \in DOMAIN values THEN SqlVal(JsonStringify(values[k])) ELSE SqlNull
        ELSE row[k]]

\* the row updateConvention leaves: set({ ...updateData, province:
\* updateData.province ? JSON.stringify(updateData.province) : null, ... })
updateConventionRow(row, updateData) ==
  [k \in DOMAIN row |->
     IF k \in ListColumns
     THEN IF k \in DOMAIN updateData THEN SqlVal(JsonStringify(updateData[k])) ELSE SqlNull
     ELSE IF k = "amount" THEN amountColumn(updateData)
     ELSE IF k \in DOMAIN updateData THEN updateData[k] ELSE row[k]]

\* text.split(delim), and the fields split_part counts: the pieces of the text
\* between the occurrences of the one-character delimiter
RECURSIVE split(_, _, _, _)
split(text, delim, k, acc) ==
  IF k > Len(text) THEN acc
  ELSE IF text[k] = delim THEN split(text, delim, k + 1, Append(acc, << >>))
  ELSE split(text, delim, k + 1, [acc EXCEPT ![Len(acc)] = Append(@, text[k])])

\* parseArray of getConvention and getAllConventions, on a column of type text
parseArray(val) ==
  IF val.isNull \/ val.val = << >> THEN << >>
  ELSE LET s == trim(val.val)
           parsed == JsonParse(s)
           parts == split(s, ",", 1, << << >> >>)
       IN IF s = << >> THEN << >>
          ELSE IF parsed.ok
          THEN IF parsed.kind = "array" THEN parsed.val ELSE <<String(parsed)>>
          ELSE IF "," \in Range(s)
          THEN SelectSeq([i \in DOMAIN parts |-> trim(parts[i])], NonEmpty)
          ELSE <<s>>

\* the convention getConvention and getAllConventions return for a row
ReadRow(row) == [k \in DOMAIN row |-> IF k \in ListColumns THEN parseArray(row[k]) ELSE row[k]]

\* split_part(text, delim, n): the n-th field, the empty text when there is none
split_part(text, delim, n) ==
  LET fields == split(text, delim, 1, << << >> >>) IN
  IF n <= Len(fields) THEN fields[n] ELSE << >>

NULLIF(text, other) == IF text = other THEN SqlNull ELSE SqlVal(text)

\* v::int raises an error for a text that is not an integer (over the
\* characters of the numbers here: a text that is not all digits)
CastFails(v) == ~v.isNull /\ (v.val = << >> \/ \E k \in DOMAIN v.val : v.val[k] \notin Digits)
CastInt(v) == IF v.isNull THEN SqlNull ELSE SqlVal(ParseDigits(v.val, 1, 0))

\* the two ORDER BY expressions of getAllConventions
YearPart(row) == NULLIF(split_part(row.conventionNumber, "/", 2), << >>)
NumberPart(row) == NULLIF(split_part(row.conventionNumber, "/", 1), << >>)
OrderKey(row) == <<CastInt(YearPart(row)), CastInt(NumberPart(row))>>

\* a DESC b: a sorts before b; NULL sorts as larger than every value, so that
\* it comes first under DESC
Desc(a, b) == IF a.isNull THEN ~b.isNull ELSE ~b.isNull /\ a.val > b.val
Before(k1, k2) == Desc(k1[1], k2[1]) \/ (k1[1] = k2[1] /\ Desc(k1[2], k2[2]))

\* getAllConventions: the query fails when a cast fails; otherwise it gives
\* the rows in an order that respects the two keys (rows with equal keys come
\* in any order)
getAllConventions(tbl) ==
  IF \E i \in DOMAIN tbl : CastFails(YearPart(tbl[i])) \/ CastFails(NumberPart(tbl[i]))
  THEN [failed |-> TRUE, orders |-> {}]
  ELSE [failed |-> FALSE,
        orders |-> {o \in [1..Cardinality(DOMAIN tbl) -> DOMAIN tbl] :
                      /\ \A i, j \in DOMAIN o : i # j => o[i] # o[j]
                      /\ \A i, j \in DOMAIN o :
                           i < j => ~Before(OrderKey(tbl[o[j]]), OrderKey(tbl[o[i]]))}]

\* the lists a create was given: an absent field stands for the empty list
GivenLists(conventionData) ==
  [k \in ListColumns |-> IF k \in DOMAIN conventionData THEN conventionData[k] ELSE << >>]

RemoveRow(tbl, id) == [i \in DOMAIN tbl \ {id} |-> tbl[i]]

\* A child table without ON DELETE CASCADE
CascadeDelete_keeps(tbl, conventionId) == tbl

\* ON DELETE CASCADE of a child table
CascadeDelete(tbl, conventionId) ==
  [i \in {j \in DOMAIN tbl : tbl[j].conventionId # conventionId} |-> tbl[i]]

InsertChild(tbl, id, conventionId) ==
  [i \in DOMAIN tbl \cup {id} |-> IF i = id THEN [id |-> id, conventionId |-> conventionId] ELSE tbl[i]]

----------------------------------------------------------------------------
(* The state at start-up: seedDatabase has run on the database it found.   *)

\* The texts earlier versions of the code left in the list columns: a JSON
\* list, a comma-separated text, a bare scalar, a number, a quoted scalar
legacyForms ==
  { [text |-> <<"[", "\"", "A", "\"", ",", "\"", "B", "\"", "]">>, list |-> <<<<"A">>, <<"B">>>>],
    [text |-> <<"A", ",", " ", "B">>, list |-> <<<<"A">>, <<"B">>>>],
    [text |-> <<"A">>, list |-> <<<<"A">>>>],
    [text |-> <<"1", "2">>, list |-> <<<<"1", "2">>>>],
    [text |-> <<"\"", "A", "\"">>, list |-> <<<<"A">>>>],
    [text |-> <<" ", "A", " ", ",", ",", " ", "B", " ">>, list |-> <<<<"A">>, <<"B">>>>] }

\* the two sample conventions of an earlier start, with list columns in those forms
legacyConventions ==
  (1 :> [ConvRow(1, <<"4", "7", "/", "2", "0", "2", "1">>, SqlVal("6750000.00"), admin_001) EXCEPT
           !.province = SqlVal(<<"[", "\"", "A", "\"", ",", "\"", "B", "\"", "]">>), !.partners = SqlVal(<<"A", ",", " ", "B">>), !.attachments = SqlVal(<<"A">>)])
  @@ (2 :> [ConvRow(2, <<"2", "1", "/", "2", "0", "2", "2">>, SqlVal("1500000.00"), editor_001) EXCEPT
           !.province = SqlVal(<<"1", "2">>), !.partners = SqlVal(<<"\"", "A", "\"">>), !.attachments = SqlVal(<<" ", "A", " ", ",", ",", " ", "B", " ">>)])

\* The database before this start: empty, or one in which the viewer had been
\* deactivated while a session of theirs (the clients hold its cookie) was
\* still stored, or one whose conventions hold lists in the legacy forms.
PriorDbs ==
  { [name |-> "empty", users |-> << >>, sessions |-> << >>, cookie |-> [c \in Clients |-> 0],
     nextSid |-> 1, conventions |-> << >>, convSeq |-> 0],
    [name |-> "stale",
     users |-> (viewer_001 :> UserRow(viewer_001, "viewer", BcryptHash("viewer123"), "viewer",
                                      "viewer@example.com", "false")),
     sessions |-> (1 :> [userId |-> viewer_001,
                         user |-> UserRow(viewer_001, "viewer", BcryptHash("viewer123"), "viewer",
                                          "viewer@example.com", "true"),
                         expire |-> sessionTtl, created |-> 0]),
     cookie |-> [c \in Clients |-> 1], nextSid |-> 2, conventions |-> << >>, convSeq |-> 0],
    [name |-> "legacy", users |-> SeedUsers(<< >>, 1), sessions |-> << >>,
     cookie |-> [c \in Clients |-> 0], nextSid |-> 1,
     conventions |-> legacyConventions, convSeq |-> 2] }

InitAt(db, w) ==
  /\ workload = w
  /\ users = SeedUsers(db.users, 1)
  /\ conventions = SeedConventions(db.conventions, db.convSeq, 1).tbl
  /\ convSeq = SeedConventions(db.conventions, db.convSeq, 1).seq
  /\ given = << >>
  /\ sessions = db.sessions
  /\ nextSid = db.nextSid
  /\ cookie = db.cookie
  /\ contributions = << >>
  /\ events = << >>
  /\ childSeq = [fc |-> 0, ev |-> 0]
  /\ disk = diskAtStart
  /\ userSeq = 0
  /\ now = 0
  /\ req = [c \in Clients |-> IdleReq]
  /\ activeTransforms = 0
  /\ running = 0
  /\ devReq = [d \in DevClients |-> [pc |-> "idle", status |-> 0]]

Init ==
  \E db \in PriorDbs, w \in Workloads :
    /\ db.name = "stale" => w \in {"accounts", "clock"}
    /\ db.name = "legacy" => w \in {"lists", "partial"}
    /\ InitAt(db, w)

----------------------------------------------------------------------------
(* Messages of the responses (the Arabic texts of the source, in English) *)

MsgUnauthorized == "unauthorized"
MsgForbidden == "forbidden"
MsgBadLogin == "bad credentials"
MsgInvalidData == "invalid data"

publicUserKeys == {"id", "username", "role", "firstName", "lastName", "email"}
safeUserKeys == publicUserKeys \cup {"isActive"}

----------------------------------------------------------------------------
(* The gate *)

\* A client sends a request, with the cookie it holds.
Start(c) ==
  /\ req[c].pc = "idle"
  /\ c \in WorkloadClients(workload)
  /\ \E route \in WorkloadRoutes(workload, c) :
       req' = [req EXCEPT ![c] = [IdleReq EXCEPT !.pc = "session", !.route = route,
                                                  !.sid = cookie[c]]]
  /\ UNCHANGED <<users, sessions, nextSid, userSeq, now, cookie, workload, devVars, records>>

\* requireAuth, up to its user lookup: no user bound to the session is a 401
requireAuthSession(r) ==
  IF r.userId = 0
  THEN Reply(r, 401, MsgUnauthorized, {})
  ELSE [r EXCEPT !.pc = "auth"]

\* app.use(getSession()): the session the cookie names is read from the store;
\* then the route's chain starts.
GetSession(c) ==
  LET r == req[c]
      live == r.sid # 0 /\ SessionLive(r.sid)
      r1 == Step([r EXCEPT !.loaded = live,
                           !.userId = IF live THEN sessions[r.sid].userId ELSE 0,
                           !.sessAge = IF live THEN now - sessions[r.sid].created ELSE 0],
                 "session")
  IN /\ r.pc = "session"
     /\ req' = [req EXCEPT ![c] = IF r.route \in PublicRoutes
                                  THEN [r1 EXCEPT !.pc = "handler"]
                                  ELSE requireAuthSession(r1)]
     /\ UNCHANGED <<users, sessions, nextSid, userSeq, now, cookie, workload, devVars, records>>

\* A variant of requireRole that checks nothing and goes on to the handler
requireRole_goesOn(r) ==
  IF r.route \notin RoleRoutes THEN [r EXCEPT !.pc = "handler"]
  ELSE [Step(r, "role") EXCEPT !.pc = "handler"]

\* requireRole(allowedRoles), on the principal requireAuth attached
requireRole(r) ==
  IF r.route \notin RoleRoutes THEN [r EXCEPT !.pc = "handler"]
  ELSE IF r.user.role \notin allowedRoles(r.route)
       THEN Reply(Step(r, "role"), 403, MsgForbidden, {})
       ELSE [Step(r, "role") EXCEPT !.pc = "handler"]

\* A variant of requireAuthUser that turns down missing users only
requireAuthUser_missingOnly(r, user) ==
  IF user = NoUser
  THEN [Reply(Step(r, "liveness"), 401, MsgUnauthorized, {}) EXCEPT !.pc = "destroy", !.loaded = FALSE]
  ELSE requireRole(Step(Step([r EXCEPT !.user = user], "liveness"), "attach"))

\* A variant of requireAuthUser that checks the role the session recorded at login
requireAuthUser_snapshot(r, user) ==
  IF user = NoUser \/ user.isActive # "true"
  THEN [Reply(Step(r, "liveness"), 401, MsgUnauthorized, {}) EXCEPT !.pc = "destroy", !.loaded = FALSE]
  ELSE LET cached == IF r.sid \in DOMAIN sessions
                     THEN [user EXCEPT !.role = sessions[r.sid].user.role] ELSE user
       IN requireRole(Step(Step([r EXCEPT !.user = cached], "liveness"), "attach"))

\* requireAuth, from its user lookup on: a missing or inactive user ends the
\* session and the request; a live one becomes req.user and the chain goes on.
requireAuthUser(r, user) ==
  IF user = NoUser \/ user.isActive # "true"
  THEN [Reply(Step(r, "liveness"), 401, MsgUnauthorized, {}) EXCEPT !.pc = "destroy", !.loaded = FALSE]
  ELSE requireRole(Step(Step([r EXCEPT !.user = user], "liveness"), "attach"))

RequireAuth(c) ==
  LET r == req[c]
      r1 == requireAuthUser(r, getUser(r.userId))
  IN /\ r.pc = "auth"
     /\ req' = [req EXCEPT ![c] = r1]
     /\ sessions' = IF r1.pc = "done" THEN ResEnd(r1) ELSE sessions
     /\ UNCHANGED <<users, nextSid, userSeq, now, cookie, workload, devVars, records>>

\* req.session.destroy(() => {}) of requireAuth reaches the store
DestroyDone(c) ==
  /\ req[c].pc = "destroy"
  /\ sessions' = DestroySession(sessions, req[c].sid)
  /\ req' = [req EXCEPT ![c].pc = "done"]
  /\ UNCHANGED <<users, nextSid, userSeq, now, cookie, workload, devVars, records>>

\* The client has read the response.
Finish(c) ==
  /\ req[c].pc = "done"
  /\ req' = [req EXCEPT ![c] = IdleReq]
  /\ UNCHANGED <<users, sessions, nextSid, userSeq, now, cookie, workload, devVars, records>>

----------------------------------------------------------------------------
(* Handlers *)

AtHandler(c, route) == req[c].pc = "handler" /\ req[c].route = route

\* A handler's response: the request is done and the session store sees its end.
Respond(c, r) ==
  /\ req' = [req EXCEPT ![c] = r]
  /\ sessions' = ResEnd(r)

\* A variant of loginDenied that tells the reasons apart
loginDenied_leaky(r, body) ==
  IF getUserByUsername(body.username) = NoUser THEN Reply(r, 404, "unknown user", {})
  ELSE IF getUserByUsername(body.username).isActive # "true" THEN Reply(r, 403, "account disabled", {})
  ELSE Reply(r, 401, MsgBadLogin, {})

\* the answer to a well-formed login that validateUser turned down
loginDenied(r, body) == Reply(r, 401, MsgBadLogin, {})

Login(c) ==
  /\ AtHandler(c, "login")
  /\ \E body \in LoginBodies(workload) :
       LET r == Handle(req[c], 0, body)
           user == validateUser(body.username, body.password)
           sid == IF r.loaded THEN r.sid ELSE nextSid
       IN IF LoginInvalid(body)
          THEN Respond(c, Reply(r, 400, MsgInvalidData, {})) /\ UNCHANGED <<nextSid, cookie>>
          ELSE IF user = NoUser
          THEN Respond(c, loginDenied(r, body)) /\ UNCHANGED <<nextSid, cookie>>
          ELSE /\ r.loaded \/ nextSid <= MaxSid
               /\ req' = [req EXCEPT ![c] = Reply([r EXCEPT !.user = user], 200, "", {Pick(user, publicUserKeys)})]
               /\ sessions' = SaveSession(sessions, sid, user)
               /\ nextSid' = IF r.loaded THEN nextSid ELSE nextSid + 1
               /\ cookie' = [cookie EXCEPT ![c] = sid]
  /\ UNCHANGED <<users, userSeq, now, workload, devVars, records>>

Logout(c) ==
  /\ AtHandler(c, "logout")
  /\ req' = [req EXCEPT ![c] = Reply(Step(req[c], "handler"), 200, "logged out", {})]
  /\ sessions' = IF req[c].loaded THEN DestroySession(sessions, req[c].sid) ELSE sessions
  /\ UNCHANGED <<users, nextSid, userSeq, now, cookie, workload, devVars, records>>

AuthUser(c) ==
  /\ AtHandler(c, "authUser")
  /\ Respond(c, Reply(Step(req[c], "handler"), 200, "", {Pick(req[c].user, publicUserKeys)}))
  /\ UNCHANGED <<users, nextSid, userSeq, now, cookie, workload, devVars, records>>

UsersList(c) ==
  /\ AtHandler(c, "usersList")
  /\ Respond(c, Reply(Step(req[c], "handler"), 200, "",
                      {Pick(users[i], safeUserKeys) : i \in DOMAIN users}))
  /\ UNCHANGED <<users, nextSid, userSeq, now, cookie, workload, devVars, records>>

UsersCreate(c) ==
  /\ AtHandler(c, "usersCreate")
  /\ \E body \in CreateUserBodies(workload) :
       LET r == Handle(req[c], 0, body)
           userData == Strip(body, createUserKeys)
           row == createUserRow(userData, 3 + userSeq + 1)
       IN IF CreateUserInvalid(body)
          THEN Respond(c, Reply(r, 400, MsgInvalidData, {})) /\ UNCHANGED <<users, userSeq>>
          ELSE IF UserConflict(users, row, {})
          THEN Respond(c, Reply(r, 500, "error creating user", {})) /\ UNCHANGED <<users, userSeq>>
          ELSE /\ userSeq < MaxNewUsers
               /\ users' = InsertUser(users, row)
               /\ userSeq' = userSeq + 1
               /\ Respond(c, Reply(r, 201, "", {Pick(row, safeUserKeys)}))
  /\ UNCHANGED <<nextSid, now, cookie, workload, devVars, records>>

\* A variant of isSelfDelete that never recognises the caller
isSelfDelete_never(id, r) == FALSE

\* req.params.id === req.user!.id
isSelfDelete(id, r) == id = r.user.id

UsersDelete(c) ==
  /\ AtHandler(c, "usersDelete")
  /\ \E id \in UserIdParams(workload) :
       LET r == Handle(req[c], id, << >>) IN
       IF isSelfDelete(id, r)
       THEN Respond(c, Reply(r, 400, "cannot delete own account", {})) /\ UNCHANGED users
       ELSE IF UserReferenced(id)
       THEN Respond(c, Reply(r, 500, "error deleting user", {})) /\ UNCHANGED users
       ELSE IF id \notin DOMAIN users
       THEN Respond(c, Reply(r, 404, "user not found", {})) /\ UNCHANGED users
       ELSE /\ users' = deleteUserRow(users, id)
            /\ Respond(c, Reply(r, 200, "user deleted", {}))
  /\ UNCHANGED <<nextSid, userSeq, now, cookie, workload, devVars, records>>

UsersUpdate(c) ==
  /\ AtHandler(c, "usersUpdate")
  /\ \E id \in UserIdParams(workload), body \in UpdateUserBodies(workload) :
       LET r == Handle(req[c], id, body)
           userData == Strip(body, createUserKeys)
           row == updateUserRow(getUser(id), userData)
       IN IF UpdateUserInvalid(body)
          THEN Respond(c, Reply(r, 400, MsgInvalidData, {})) /\ UNCHANGED users
          ELSE IF id \notin DOMAIN users
          THEN Respond(c, Reply(r, 404, "user not found", {})) /\ UNCHANGED users
          ELSE IF UserConflict(users, row, {id})
          THEN Respond(c, Reply(r, 500, "error updating user", {})) /\ UNCHANGED users
          ELSE /\ users' = [users EXCEPT ![id] = row]
               /\ Respond(c, Reply(r, 200, "", {Pick(row, safeUserKeys)}))
  /\ UNCHANGED <<nextSid, userSeq, now, cookie, workload, devVars, records>>

\* Any route that lists the conventions (getAllConventions) and answers 200
\* GET /api/conventions: the rows as getAllConventions orders them
ConvList(c) ==
  /\ AtHandler(c, "convList")
  /\ LET r == Step(req[c], "handler")
         all == getAllConventions(conventions)
     IN IF all.failed THEN Respond(c, Reply(r, 500, "error fetching conventions", {}))
        ELSE \E o \in all.orders :
               Respond(c, [Reply(r, 200, "", {ReadRow(conventions[i]) : i \in DOMAIN conventions})
                             EXCEPT !.listing = [k \in DOMAIN o |-> ReadRow(conventions[o[k]])]])
  /\ UNCHANGED <<users, nextSid, userSeq, now, cookie, workload, devVars, records>>

\* the other reads: the statistics and the export work on getAllConventions
ConventionRead(c) ==
  /\ req[c].pc = "handler" /\ req[c].route \in ConventionReadRoutes \ {"convList", "convGet", "convDownload"}
  /\ LET r == Step(req[c], "handler") IN
     IF req[c].route # "convSearch" /\ getAllConventions(conventions).failed
     THEN Respond(c, Reply(r, 500, "error computing statistics", {}))
     ELSE Respond(c, Reply(r, 200, "", {}))
  /\ UNCHANGED <<users, nextSid, userSeq, now, cookie, workload, devVars, records>>

ConvGet(c) ==
  /\ AtHandler(c, "convGet")
  /\ \E param \in IdParams :
       LET r == Handle(req[c], param, << >>)
           id == parseInt(param)
       IN IF id = NaN THEN Respond(c, Reply(r, 400, "invalid convention id", {}))
          ELSE IF id \notin DOMAIN conventions THEN Respond(c, Reply(r, 404, "convention not found", {}))
          ELSE Respond(c, Reply(r, 200, "", {ReadRow(conventions[id])}))
  /\ UNCHANGED <<users, nextSid, userSeq, now, cookie, workload, devVars, records>>

\* the id goes to the query as parseInt gave it: NaN makes the query fail
ConvDownload(c) ==
  /\ AtHandler(c, "convDownload")
  /\ \E param \in IdParams :
       LET r == Handle(req[c], param, << >>)
           id == parseInt(param)
       IN IF id = NaN THEN Respond(c, Reply(r, 500, "error generating document", {}))
          ELSE IF id \notin DOMAIN conventions THEN Respond(c, Reply(r, 404, "convention not found", {}))
          ELSE Respond(c, Reply(r, 200, "", {ReadRow(conventions[id])}))
  /\ UNCHANGED <<users, nextSid, userSeq, now, cookie, workload, devVars, records>>

ConvCreate(c) ==
  /\ AtHandler(c, "convCreate")
  /\ \E body \in CreateConventionBodies(workload) :
       LET r == Handle(req[c], 0, body)
           conventionData == Strip(body, insertConventionKeys)
           id == convSeq + 1
       IN IF ConventionInvalid(body)
          THEN Respond(c, Reply(r, 400, MsgInvalidData, {})) /\ UNCHANGED <<conventions, given, convSeq>>
          ELSE /\ convSeq < MaxConv
               /\ convSeq' = id
               /\ IF \/ amountColumn(conventionData).isNull
                     \/ ConvConflict(conventions, conventionData.conventionNumber, {})
                  THEN Respond(c, Reply(r, 500, "error creating convention", {})) /\ UNCHANGED <<conventions, given>>
                  ELSE LET row == createConventionRow(conventionData, r.user.id, id) IN
                       /\ conventions' = [i \in DOMAIN conventions \cup {id} |->
                                            IF i = id THEN row ELSE conventions[i]]
                       /\ given' = [i \in DOMAIN given \cup {id} |->
                                      IF i = id THEN GivenLists(conventionData) ELSE given[i]]
                       /\ Respond(c, Reply(r, 201, "", {ReadRow(row)}))
  /\ UNCHANGED <<users, nextSid, userSeq, now, cookie, workload, devVars, contributions, events, childSeq, disk>>

ConvUpdate(c) ==
  /\ AtHandler(c, "convUpdate")
  /\ \E param \in IdParams, body \in UpdateConventionBodies :
       LET r == Handle(req[c], param, body)
           id == parseInt(param)
           updateData == Strip(body, insertConventionKeys)
           row == updateConventionRow(conventions[id], updateData)
       IN IF id = NaN
          THEN Respond(c, Reply(r, 400, "invalid convention id", {})) /\ UNCHANGED <<conventions, given>>
          ELSE IF id \notin DOMAIN conventions
          THEN Respond(c, Reply(r, 404, "convention not found", {})) /\ UNCHANGED <<conventions, given>>
          ELSE IF \/ row.amount.isNull
                  \/ /\ "conventionNumber" \in DOMAIN updateData
                     /\ ConvConflict(conventions, updateData.conventionNumber, {id})
          THEN Respond(c, Reply(r, 500, "error updating convention", {})) /\ UNCHANGED <<conventions, given>>
          ELSE /\ conventions' = [conventions EXCEPT ![id] = row]
               /\ given' = RemoveRow(given, id)
               /\ Respond(c, Reply(r, 200, "", {ReadRow(row)}))
  /\ UNCHANGED <<users, nextSid, userSeq, now, cookie, workload, devVars, convSeq, contributions, events, childSeq, disk>>

ConvDelete(c) ==
  /\ AtHandler(c, "convDelete")
  /\ \E param \in IdParams :
       LET r == Handle(req[c], param, << >>)
           id == parseInt(param)
       IN IF id = NaN
          THEN Respond(c, Reply(r, 400, "invalid convention id", {})) /\ UNCHANGED <<conventions, given, contributions, events>>
          ELSE IF id \notin DOMAIN conventions
          THEN Respond(c, Reply(r, 404, "convention not found", {})) /\ UNCHANGED <<conventions, given, contributions, events>>
          ELSE /\ conventions' = RemoveRow(conventions, id)
               /\ given' = RemoveRow(given, id)
               /\ contributions' = CascadeDelete(contributions, id)
               /\ events' = CascadeDelete(events, id)
               /\ Respond(c, Reply(r, 200, "convention deleted", {}))
  /\ UNCHANGED <<users, nextSid, userSeq, now, cookie, workload, devVars, convSeq, childSeq, disk>>

\* The list, create, update and delete handlers of a child table of the
\* conventions (kind "fc": financial contributions, kind "ev": administrative events)
ChildList(c, route, tbl) ==
  /\ AtHandler(c, route)
  /\ \E param \in IdParams :
       LET r == Handle(req[c], param, << >>)
           conventionId == parseInt(param)
       IN IF conventionId = NaN THEN Respond(c, Reply(r, 500, "error fetching rows", {}))
          ELSE Respond(c, Reply(r, 200, "", {tbl[i] : i \in {j \in DOMAIN tbl : tbl[j].conventionId = conventionId}}))
  /\ UNCHANGED <<users, nextSid, userSeq, now, cookie, workload, devVars, records>>

ChildCreate(c, route, kind, tbl, tbl2) ==
  /\ AtHandler(c, route)
  /\ \E param \in IdParams :
       LET r == Handle(req[c], param, << >>)
           conventionId == parseInt(param)
           id == childSeq[kind] + 1
       IN IF conventionId = NaN
          THEN Respond(c, Reply(r, 400, MsgInvalidData, {})) /\ tbl2 = tbl /\ UNCHANGED childSeq
          ELSE /\ childSeq[kind] < MaxChild
               /\ childSeq' = [childSeq EXCEPT ![kind] = id]
               /\ IF conventionId \notin DOMAIN conventions
                  THEN Respond(c, Reply(r, 500, "error creating row", {})) /\ tbl2 = tbl
                  ELSE /\ tbl2 = InsertChild(tbl, id, conventionId)
                       /\ Respond(c, Reply(r, 201, "", {[id |-> id, conventionId |-> conventionId]}))
  /\ UNCHANGED <<users, nextSid, userSeq, now, cookie, workload, devVars, conventions, given, convSeq, disk>>

ChildUpdate(c, route, tbl) ==
  /\ AtHandler(c, route)
  /\ \E param \in IdParams :
       LET r == Handle(req[c], param, << >>)
           id == parseInt(param)
       IN IF id = NaN THEN Respond(c, Reply(r, 500, "error updating row", {}))
          ELSE IF id \notin DOMAIN tbl THEN Respond(c, Reply(r, 404, "row not found", {}))
          ELSE Respond(c, Reply(r, 200, "", {tbl[id]}))
  /\ UNCHANGED <<users, nextSid, userSeq, now, cookie, workload, devVars, records>>

ChildDelete(c, route, tbl, tbl2) ==
  /\ AtHandler(c, route)
  /\ \E param \in IdParams :
       LET r == Handle(req[c], param, << >>)
           id == parseInt(param)
       IN IF id = NaN THEN Respond(c, Reply(r, 500, "error deleting row", {})) /\ tbl2 = tbl
          ELSE /\ tbl2 = RemoveRow(tbl, id)
               /\ Respond(c, Reply(r, 200, "row deleted", {}))
  /\ UNCHANGED <<users, nextSid, userSeq, now, cookie, workload, devVars, conventions, given, convSeq, childSeq, disk>>

FcList(c) == ChildList(c, "fcList", contributions)
FcCreate(c) == ChildCreate(c, "fcCreate", "fc", contributions, contributions') /\ UNCHANGED events
FcUpdate(c) == ChildUpdate(c, "fcUpdate", contributions)
FcDelete(c) == ChildDelete(c, "fcDelete", contributions, contributions') /\ UNCHANGED events

EvList(c) == ChildList(c, "evList", events)
EvCreate(c) == ChildCreate(c, "evCreate", "ev", events, events') /\ UNCHANGED contributions
EvUpdate(c) == ChildUpdate(c, "evUpdate", events)
EvDelete(c) == ChildDelete(c, "evDelete", events, events') /\ UNCHANGED contributions

\* The error multer ends with, if any: it takes the files in the order of the
\* request, and the first that breaks a limit or that fileFilter refuses ends
\* the upload (the files stored so far are removed).  A limit is a MulterError
\* with a code, the refusal of fileFilter a plain Error without one.
NoError == [name |-> "", code |-> ""]

RECURSIVE multerError(_, _)
multerError(files, i) ==
  IF i > Len(files) THEN NoError
  ELSE IF i > maxCount THEN [name |-> "MulterError", code |-> "LIMIT_FILE_COUNT"]
  ELSE IF ~fileFilter(files[i]) THEN [name |-> "Error", code |-> ""]
  ELSE IF files[i].size = "huge" THEN [name |-> "MulterError", code |-> "LIMIT_FILE_SIZE"]
  ELSE multerError(files, i + 1)

\* the answer of the route to an error of multer
uploadRejection(err) ==
  IF err.code = "LIMIT_FILE_SIZE" THEN [status |-> 400, error |-> "FILE_TOO_LARGE"]
  ELSE IF err.name = "MulterError"
  THEN IF err.code = "LIMIT_FILE_COUNT" THEN [status |-> 400, error |-> "TOO_MANY_FILES"]
       ELSE IF err.code = "LIMIT_UNEXPECTED_FILE" THEN [status |-> 400, error |-> "UNEXPECTED_FILE"]
       ELSE [status |-> 400, error |-> "UPLOAD_ERROR"]
  ELSE [status |-> 500, error |-> ""]

\* the answer of the handler's catch: 500 with a message and no error code
internalError == [status |-> 500, error |-> ""]

\* POST /api/upload: multer stores the files field, then the handler answers
Upload(c) ==
  /\ AtHandler(c, "upload")
  /\ \E files \in UploadBatches :
       LET r == Handle(req[c], 0, files)
           err == multerError(files, 1)
       IN IF err # NoError
          THEN /\ Respond(c, [Reply(r, uploadRejection(err).status, "upload error", {})
                                EXCEPT !.error = uploadRejection(err).error])
               /\ UNCHANGED disk
          ELSE IF files = << >>
          THEN Respond(c, Reply(r, 400, "no files uploaded", {})) /\ UNCHANGED disk
          ELSE /\ disk' = disk \cup {Append(uploadsDir, files[i].originalname) : i \in DOMAIN files}
               /\ Respond(c, Reply(r, 200, "", {[filename |-> files[i].originalname] : i \in DOMAIN files}))
  /\ UNCHANGED <<users, nextSid, userSeq, now, cookie, workload, devVars, conventions, given, convSeq, contributions, events, childSeq>>

\* GET /uploads/<file>: express.static
UploadsGet(c) ==
  /\ AtHandler(c, "uploadsGet")
  /\ \E filename \in FilenameParams :
       LET r == Step(req[c], "handler") IN
       IF ~filename.abs /\ ".." \notin Range(filename.segs) /\ uploadsDir \o filename.segs \in disk
       THEN Respond(c, Reply(r, 200, "", {[filename |-> filename]}))
       ELSE Respond(c, Reply(r, 404, "", {}))
  /\ UNCHANGED <<users, nextSid, userSeq, now, cookie, workload, devVars, records>>

UploadDelete(c) ==
  /\ AtHandler(c, "uploadDelete")
  /\ \E filename \in FilenameParams :
       /\ disk' = deleteFile(disk, filename)
       /\ Respond(c, Reply(Handle(req[c], filename, << >>), 200, "file deleted", {}))
  /\ UNCHANGED <<users, nextSid, userSeq, now, cookie, workload, devVars, conventions, given, convSeq, contributions, events, childSeq>>

----------------------------------------------------------------------------
(* The clock and the session store's pruning of expired rows *)

Tick ==
  /\ workload = "clock"
  /\ now < MaxTime
  /\ now' = now + 1
  /\ UNCHANGED <<users, sessions, nextSid, userSeq, cookie, req, workload, devVars, records>>

PruneSessions ==
  /\ \E s \in DOMAIN sessions : sessions[s].expire < now
  /\ sessions' = [s \in {t \in DOMAIN sessions : sessions[t].expire >= now} |-> sessions[s]]
  /\ UNCHANGED <<users, nextSid, userSeq, now, cookie, req, workload, devVars, records>>

\* The server starts again: seedDatabase runs before the routes are registered,
\* on the database as the requests handled so far have left it.
Restart ==
  /\ workload = "reseed"
  /\ \A c \in Clients : req[c].pc \in {"idle", "done"}
  /\ convSeq + Len(sampleConventions) <= MaxConv
  /\ users' = SeedUsers(users, 1)
  /\ conventions' = SeedConventions(conventions, convSeq, 1).tbl
  /\ convSeq' = SeedConventions(conventions, convSeq, 1).seq
  /\ UNCHANGED <<sessions, nextSid, userSeq, now, cookie, req, workload, devVars,
                 contributions, events, childSeq, disk, given>>

Next ==
  \/ \E c \in Clients :
       \/ Start(c) \/ GetSession(c) \/ RequireAuth(c) \/ DestroyDone(c) \/ Finish(c)
       \/ Login(c) \/ Logout(c) \/ AuthUser(c)
       \/ UsersList(c) \/ UsersCreate(c) \/ UsersDelete(c) \/ UsersUpdate(c)
       \/ ConvList(c) \/ ConventionRead(c) \/ ConvGet(c) \/ ConvDownload(c)
       \/ ConvCreate(c) \/ ConvUpdate(c) \/ ConvDelete(c)
       \/ FcList(c) \/ FcCreate(c) \/ FcUpdate(c) \/ FcDelete(c)
       \/ EvList(c) \/ EvCreate(c) \/ EvUpdate(c) \/ EvDelete(c)
       \/ Upload(c) \/ UploadsGet(c) \/ UploadDelete(c)
  \/ Tick
  \/ PruneSessions
  \/ Restart

Spec == Init /\ [][Next]_vars

----------------------------------------------------------------------------
(* The dev catch-all route of setupVite: app.use("*", transformLimiter, ...) *)

MAX_TRANSFORMS == 5

mainVars == <<users, sessions, nextSid, userSeq, now, cookie, req, workload, records>>

\* the requests awaiting their transform, and the calls nobody awaits any more
Awaiting == {d \in DevClients : devReq[d].pc = "awaiting"}
Orphans == running - Cardinality(Awaiting)

DevReply(d, status) == devReq' = [devReq EXCEPT ![d] = [pc |-> "done", status |-> status]]

\* A request arrives and the limiter and loadTemplate are awaited (nothing the
\* requests share is touched until then); loadTemplate throws: catch, next(e)
TemplateFails(d) ==
  /\ devReq[d].pc \in {"idle", "done"}
  /\ DevReply(d, 500)
  /\ UNCHANGED <<activeTransforms, running, mainVars>>

\* A request arrives and the template is loaded; then, in one synchronous
\* stretch: if (activeTransforms >= MAX_TRANSFORMS) return 429;
\* activeTransforms++; the call of transformIndexHtml, raced against the timer
Throttle(d) ==
  /\ devReq[d].pc \in {"idle", "done"}
  /\ IF activeTransforms >= MAX_TRANSFORMS
     THEN DevReply(d, 429) /\ UNCHANGED <<activeTransforms, running>>
     ELSE /\ activeTransforms' = activeTransforms + 1
          /\ running' = running + 1
          /\ devReq' = [devReq EXCEPT ![d] = [pc |-> "awaiting", status |-> 0]]
  /\ UNCHANGED mainVars

\* the transform resolves: 200, then finally
TransformDone(d) ==
  /\ devReq[d].pc = "awaiting"
  /\ DevReply(d, 200)
  /\ running' = running - 1
  /\ activeTransforms' = activeTransforms - 1
  /\ UNCHANGED mainVars

\* the transform rejects: finally, catch, next(e)
TransformThrows(d) ==
  /\ devReq[d].pc = "awaiting"
  /\ DevReply(d, 500)
  /\ running' = running - 1
  /\ activeTransforms' = activeTransforms - 1
  /\ UNCHANGED mainVars

\* A variant of TransformTimeout without the finally block
TransformTimeout_leaks(d) ==
  /\ devReq[d].pc = "awaiting"
  /\ Orphans < MaxOrphans
  /\ DevReply(d, 500)
  /\ UNCHANGED <<activeTransforms, running, mainVars>>

\* the timer of 3 seconds rejects first: finally, catch, next(e); the race
\* does not stop the call of transformIndexHtml, which goes on
TransformTimeout(d) ==
  /\ devReq[d].pc = "awaiting"
  /\ Orphans < MaxOrphans
  /\ DevReply(d, 500)
  /\ activeTransforms' = activeTransforms - 1
  /\ UNCHANGED <<running, mainVars>>

\* a call that lost its race settles at last
OrphanSettles ==
  /\ Orphans > 0
  /\ running' = running - 1
  /\ UNCHANGED <<activeTransforms, devReq, mainVars>>

DevInit == InitAt(CHOOSE db \in PriorDbs : db.name = "empty", "transforms")

DevNext ==
  \/ \E d \in DevClients :
       \/ TemplateFails(d) \/ Throttle(d)
       \/ TransformDone(d) \/ TransformThrows(d) \/ TransformTimeout(d)
  \/ OrphanSettles

\* an awaited race settles: by the transform or, after 3 seconds, by the timer
DevFairness ==
  \A d \in DevClients : WF_vars(TransformDone(d) \/ TransformThrows(d) \/ TransformTimeout(d))

DevSpec == DevInit /\ [][DevNext]_vars /\ DevFairness

----------------------------------------------------------------------------
(* Vocabulary of the properties *)

\* step s is in the trace of request r
Ran(r, s) == \E i \in DOMAIN r.steps : r.steps[i] = s

\* the gate let the request through to its handler
Admitted(r) == (r.pc = "handler" \/ Ran(r, "handler")) /\ r.status \notin {401, 403}

\* the gate ended the request with this status, before its handler
Rejected(r, status) == r.pc = "done" /\ r.status = status /\ ~Ran(r, "handler")

GetStyleReads ==
  {route \in ConventionReadRoutes \cup {"fcList"} \cup EventReadRoutes : Method(route) = "GET"}

RecordMutations ==
  {route \in ConventionWriteRoutes \cup ContributionWriteRoutes \cup EventWriteRoutes :
     Method(route) # "GET"}

\* the steps of a route's chain, in order
GateSteps(route) ==
  IF route \in RoleRoutes THEN <<"session", "liveness", "attach", "role", "handler">>
  ELSE <<"session", "liveness", "attach", "handler">>


\* the user bound to a session is gone or not active
Stale(id) == id \notin DOMAIN users \/ users[id].isActive # "true"

CredNames == {"admin", "editor", "viewer", "newuser", "ghost"}
CredPasswords == {"admin123", "editor123", "viewer123", "secret9", "abc"}

Matches(u, username, password) ==
  u.username = username /\ u.isActive = "true" /\ BcryptCompare(password, u.password)

Response(r) == [status |-> r.status, message |-> r.message, objects |-> r.objects]

\* the line the logging middleware writes for a finished /api request: the
\* route, the status and the JSON body the response carried
LogLine(r) == [route |-> r.route, status |-> r.status, body |-> Response(r)]

\* a well-formed login that was turned down
FailedLogin(r) ==
  r.route = "login" /\ r.pc = "done" /\ ~LoginInvalid(r.body) /\ r.status # 200

----------------------------------------------------------------------------
(* C1 *)

(* C1: the role matrix.  Whenever the gate has attached a principal, a     *)
(* viewer is admitted on every GET-style read of conventions, contributions *)
(* and events and rejected with 403 on every mutation of them; an editor is *)
(* admitted on those reads and mutations and rejected with 403 on every     *)
(* /api/users route; an admin is admitted everywhere; and on a /api/users   *)
(* route a request is admitted only if its principal is an admin.           *)
C1_RoleMatrix ==
  \A c \in Clients :
    LET r == req[c] IN
    Ran(r, "attach") =>
      /\ (r.user.role = "viewer" /\ r.route \in GetStyleReads) => Admitted(r)
      /\ (r.user.role = "viewer" /\ r.route \in RecordMutations) => Rejected(r, 403)
      /\ (r.user.role = "editor" /\ r.route \in GetStyleReads \cup RecordMutations) => Admitted(r)
      /\ (r.user.role = "editor" /\ r.route \in UserRoutes) => Rejected(r, 403)
      /\ (r.user.role = "admin" /\ r.route \in GetStyleReads \cup RecordMutations \cup UserRoutes)
           => Admitted(r)
      /\ (r.route \in UserRoutes /\ Admitted(r)) => r.user.role = "admin"
      /\ (r.route \in UserRoutes /\ r.user.role # "admin") => Rejected(r, 403)

\* a viewer's mutation of an administrative event has been rejected with 403
C1_Witness ==
  \E c \in Clients :
    /\ req[c].user.role = "viewer" /\ req[c].route = "evDelete"
    /\ Rejected(req[c], 403)

----------------------------------------------------------------------------
(* C2 *)

C2_Trace ==
  \A c \in Clients :
    LET r == req[c] IN
    (r.pc # "idle" /\ r.route \notin PublicRoutes) =>
      /\ IsPrefix(r.steps, GateSteps(r.route))
      /\ (Ran(r, "session") /\ r.userId = 0) => (Rejected(r, 401) /\ r.steps = <<"session">>)
      /\ (Ran(r, "attach") /\ r.route \in RoleRoutes /\ r.user.role \notin allowedRoles(r.route))
           => (Rejected(r, 403) /\ r.steps = <<"session", "liveness", "attach", "role">>)
      /\ r.status \in {401, 403} => ~Ran(r, "handler")
      /\ Ran(r, "handler") => r.steps = GateSteps(r.route)
      /\ r.pc = "handler" => Append(r.steps, "handler") = GateSteps(r.route)

C2_NoHandlerEffect ==
  \A c \in Clients :
    (req'[c].pc # req[c].pc /\ req'[c].route \notin PublicRoutes /\ ~Ran(req'[c], "handler"))
      => UNCHANGED <<users, userSeq, records>>

(* C2: gate ordering.  On every guarded route the steps of a request are a *)
(* prefix of session, liveness, attach, role (where declared), handler; a   *)
(* request with no bound session ends with 401 after the session step       *)
(* alone (no user lookup); a live principal whose role is outside the       *)
(* allow-list ends with 403 after the role step; a handler runs only after  *)
(* every earlier step, and a step of a request whose handler has not run    *)
(* changes none of the stores the handlers work on.                         *)
C2_GateOrdering == []C2_Trace /\ [][C2_NoHandlerEffect]_vars

\* an editor's request on a /api/users route has ended with 403 at the role step
C2_Witness ==
  \E c \in Clients :
    /\ req[c].route \in UserRoutes /\ req[c].user.role = "editor"
    /\ req[c].status = 403
    /\ req[c].steps = <<"session", "liveness", "attach", "role">>

----------------------------------------------------------------------------
(* C3 *)

C3_Iff ==
  \A username \in CredNames, password \in CredPasswords :
    LET user == validateUser(username, password) IN
    /\ user # NoUser <=> \E i \in DOMAIN users : Matches(users[i], username, password)
    /\ user # NoUser => (\E i \in DOMAIN users : users[i] = user) /\ Matches(user, username, password)

C3_LoginBinds ==
  \A c \in Clients :
    (req[c].route = "login" /\ req[c].pc = "handler" /\ req'[c].pc = "done") =>
      LET body == req'[c].body
          user == validateUser(body.username, body.password)
      IN IF LoginInvalid(body) \/ user = NoUser
         THEN /\ req'[c].status # 200
              /\ cookie' = cookie
              /\ \A s \in DOMAIN sessions' :
                   s \in DOMAIN sessions /\ sessions'[s].userId = sessions[s].userId
         ELSE /\ req'[c].status = 200
              /\ sessions'[cookie'[c]].userId = user.id

(* C3: validateUser returns the user's record if and only if a user with   *)
(* exactly that username exists, its isActive is "true" and the password    *)
(* matches the stored hash, and null in every other case; a login that got  *)
(* null answers without binding a user to any session, one that got a       *)
(* record binds that user to the session of the client.                     *)
C3_ValidateUser == []C3_Iff /\ [][C3_LoginBinds]_vars

\* a login with the right password of a deactivated user has been turned down
C3_Witness ==
  \E c \in Clients :
    /\ req[c].route = "login" /\ req[c].pc = "done" /\ req[c].status = 401
    /\ req[c].body.username = "viewer" /\ req[c].body.password = "viewer123"
    /\ viewer_001 \in DOMAIN users /\ users[viewer_001].isActive = "false"
    /\ BcryptCompare("viewer123", users[viewer_001].password)

----------------------------------------------------------------------------
(* C4 *)

(* C4: login failure is indistinguishable.  Any two well-formed logins that *)
(* fail, whatever the reason (unknown username, inactive user, wrong        *)
(* password), get the identical response: status 401 and the same message.  *)
C4_LoginFailureUniform ==
  \A c, d \in Clients :
    (FailedLogin(req[c]) /\ FailedLogin(req[d])) =>
      /\ Response(req[c]) = Response(req[d])
      /\ req[c].status = 401 /\ req[c].message = MsgBadLogin /\ req[c].objects = {}

\* two failed logins are answered at once: one of an unknown username, one of
\* a deactivated user with the right password
C4_Witness ==
  \E c, d \in Clients :
    /\ FailedLogin(req[c]) /\ FailedLogin(req[d])
    /\ getUserByUsername(req[c].body.username) = NoUser
    /\ getUserByUsername(req[d].body.username) # NoUser
    /\ getUserByUsername(req[d].body.username).isActive = "false"
    /\ BcryptCompare(req[d].body.password, getUserByUsername(req[d].body.username).password)

----------------------------------------------------------------------------
(* C5 *)

C5_Invalidate ==
  \A c \in Clients :
    /\ (req[c].pc = "auth" /\ req'[c].pc # "auth" /\ Stale(req[c].userId)) =>
         (req'[c].pc = "destroy" /\ req'[c].status = 401 /\ ~Ran(req'[c], "handler"))
    /\ (req[c].pc = "destroy" /\ req'[c].pc # "destroy") =>
         (req'[c].pc = "done" /\ req'[c].status = 401 /\ req[c].sid \notin DOMAIN sessions')
    /\ (req[c].pc = "session" /\ req'[c].pc # "session" /\ req[c].route \notin PublicRoutes
          /\ req[c].sid \notin DOMAIN sessions) => Rejected(req'[c], 401)

C5_LivePrincipal ==
  \A c \in Clients :
    (req[c].route \notin PublicRoutes /\ (req[c].pc = "handler" \/ Ran(req[c], "handler"))) =>
      (req[c].user # NoUser /\ req[c].user.isActive = "true")

(* C5: stale-session invalidation.  A request through requireAuth whose     *)
(* session is bound to a user that is deleted or not active is answered 401 *)
(* without its handler running, and its session is removed from the store;  *)
(* a later request carrying the reference of a removed session is answered  *)
(* 401 as well; a handler only ever runs for a principal that was present   *)
(* and active at the gate.                                                  *)
C5_StaleSession == [][C5_Invalidate]_vars /\ []C5_LivePrincipal

\* the request of a deleted user has been answered 401 and its session is gone
C5_Witness ==
  \E c \in Clients :
    /\ req[c].pc = "done" /\ req[c].status = 401 /\ Ran(req[c], "liveness")
    /\ req[c].userId \notin DOMAIN users
    /\ req[c].sid \notin DOMAIN sessions

----------------------------------------------------------------------------
(* C6 *)

(* C6: deactivation takes effect on the next request.  Once a user update  *)
(* whose body sets isActive to "false" has been answered 200, the updated   *)
(* user can no longer log in with any password and counts as not active at  *)
(* the gate.                                                                *)
C6_DeactivationTakesEffect ==
  \A c \in Clients :
    LET r == req[c] IN
    (/\ r.route = "usersUpdate" /\ r.pc = "done" /\ r.status = 200
     /\ "isActive" \in DOMAIN r.body /\ r.body.isActive = "false"
     /\ r.param \in DOMAIN users) =>
       /\ Stale(r.param)
       /\ \A password \in CredPasswords : validateUser(users[r.param].username, password) = NoUser

----------------------------------------------------------------------------
(* C7 *)

C7_StoreRole ==
  \A c \in Clients :
    (req[c].pc = "auth" /\ req'[c].pc # "auth" /\ ~Stale(req[c].userId)) =>
      /\ req'[c].user = users[req[c].userId]
      /\ req[c].route \in RoleRoutes =>
           IF users[req[c].userId].role \in allowedRoles(req[c].route)
           THEN req'[c].pc = "handler"
           ELSE Rejected(req'[c], 403)

(* C7: no cached role decision.  The principal the gate attaches is the    *)
(* row the user store holds when the gate runs, and the role check admits   *)
(* the request exactly when that row's role is on the route's allow-list,   *)
(* whatever role the session recorded at login.                             *)
C7_NoCachedRole == [][C7_StoreRole]_vars

\* a session that recorded the role viewer at login has been admitted to the
\* list of users after the user was made an admin
C7_Witness ==
  \E c \in Clients :
    /\ req[c].route = "usersList" /\ req[c].status = 200
    /\ req[c].sid \in DOMAIN sessions
    /\ sessions[req[c].sid].user.role = "viewer"
    /\ req[c].user.role = "admin"

----------------------------------------------------------------------------
(* C8 *)

C8_Rejected ==
  \A c \in Clients :
    LET r == req[c] IN
    (r.route = "usersDelete" /\ Ran(r, "handler") /\ r.pc = "done" /\ r.param = r.user.id) =>
      /\ r.status = 400
      /\ r.param \in DOMAIN users /\ users[r.param].isActive = "true"

C8_NoDelete ==
  \A c \in Clients :
    (/\ req[c].route = "usersDelete" /\ req[c].pc = "handler" /\ req'[c].pc = "done"
     /\ req'[c].param = req'[c].user.id) => users' = users

(* C8: self-protection.  A DELETE /api/users/:id whose :id is the id of    *)
(* the authenticated admin is answered with the error status 400, leaves    *)
(* the users table as it was, and the admin's record is present and active  *)
(* after the request.                                                       *)
C8_SelfProtection == []C8_Rejected /\ [][C8_NoDelete]_vars

\* an admin's delete of their own account has been answered
C8_Witness ==
  \E c \in Clients :
    /\ req[c].route = "usersDelete" /\ req[c].pc = "done"
    /\ req[c].user.role = "admin" /\ req[c].param = req[c].user.id
    /\ req[c].status = 400

----------------------------------------------------------------------------
(* C9 *)

(* C9: the stored password never leaves the server.  No object of any      *)
(* response body, and no object of the body the request logger captured,    *)
(* has a password field, on any route in any reachable state.               *)
C9_NoPasswordOut ==
  \A c \in Clients :
    /\ \A o \in req[c].objects : "password" \notin DOMAIN o
    /\ \A o \in LogLine(req[c]).body.objects : "password" \notin DOMAIN o

\* an update that set a user's password has been answered with the user's record
C9_Witness ==
  \E c \in Clients :
    /\ req[c].route = "usersUpdate" /\ req[c].status = 200
    /\ "password" \in DOMAIN req[c].body
    /\ req[c].objects # {}

----------------------------------------------------------------------------
(* C10 *)

(* C10: sessions have a fixed, non-sliding lifetime.  No request is let     *)
(* through the gate on a session created more than sessionTtl before, however *)
(* many requests were made on it in between, and the session lookup never   *)
(* returns a session whose expire has passed.                               *)
C10_Age == \A c \in Clients : Ran(req[c], "attach") => req[c].sessAge <= sessionTtl

C10_Lookup ==
  \A c \in Clients :
    (req[c].pc = "session" /\ req'[c].loaded) => sessions[req[c].sid].expire >= now

C10_FixedLifetime == []C10_Age /\ [][C10_Lookup]_vars

----------------------------------------------------------------------------
(* C11 *)

C11_Always200 ==
  \A c \in Clients :
    (req[c].route = "logout" /\ req[c].pc = "done") => req[c].status = 200

C11_Destroys ==
  \A c \in Clients :
    /\ (req[c].route = "logout" /\ req[c].pc = "handler" /\ req'[c].pc = "done") =>
         /\ req'[c].status = 200
         /\ req[c].sid \in DOMAIN sessions' => sessions'[req[c].sid].expire < now'
    /\ (req[c].pc = "session" /\ req'[c].pc # "session" /\ req[c].route \notin PublicRoutes
          /\ ~SessionLive(req[c].sid)) => Rejected(req'[c], 401)

----------------------------------------------------------------------------
(* C12 *)

(* C12: a duplicate conventionNumber is a Conflict.  A create whose         *)
(* conventionNumber is that of an existing convention leaves the table as   *)
(* it was and is answered with a status of its own, not the generic 500 of  *)
(* an internal error.                                                       *)
C12_ConflictDistinct ==
  [][\A c \in Clients :
       (/\ req[c].route = "convCreate" /\ req[c].pc = "handler" /\ req'[c].pc = "done"
        /\ "conventionNumber" \in DOMAIN req'[c].body
        /\ ConvConflict(conventions, req'[c].body.conventionNumber, {})) =>
          (conventions' = conventions /\ req'[c].status \in 400..499)]_vars

----------------------------------------------------------------------------
(* C13 *)

C13_Unique ==
  \A i, j \in DOMAIN conventions :
    conventions[i].conventionNumber = conventions[j].conventionNumber => i = j

C13_DuplicateFails ==
  \A c \in Clients :
    (/\ req[c].route \in {"convCreate", "convUpdate"} /\ req[c].pc = "handler" /\ req'[c].pc = "done"
     /\ "conventionNumber" \in DOMAIN req'[c].body
     /\ ConvConflict(conventions, req'[c].body.conventionNumber,
                     IF req[c].route = "convUpdate" THEN {parseInt(req'[c].param)} ELSE {})) =>
       (conventions' = conventions /\ req'[c].status >= 400)

(* C13: conventionNumber is unique under concurrency.  In every state       *)
(* reached by interleaved creates and updates of several clients no two     *)
(* conventions share a conventionNumber, and a create or update that would  *)
(* introduce a duplicate is answered with an error and leaves every row as  *)
(* it was.                                                                  *)
C13_UniqueNumbers == []C13_Unique /\ [][C13_DuplicateFails]_vars

\* two clients created the same number at the same time: one got the row, the
\* other an error
C13_Witness ==
  \E c, d \in Clients :
    /\ req[c].route = "convCreate" /\ req[c].pc = "done" /\ req[c].status = 201
    /\ req[d].route = "convCreate" /\ req[d].pc = "done" /\ req[d].status = 500
    /\ req[c].body.conventionNumber = req[d].body.conventionNumber

----------------------------------------------------------------------------
(* C14 *)

\* the conventions a step returns from getConvention or getAllConventions
Returned(c) ==
  IF req[c].pc = "handler" /\ req'[c].pc = "done" /\ req'[c].status = 200
  THEN IF req[c].route = "convGet" THEN req'[c].objects
       ELSE IF req[c].route = "convList" THEN Range(req'[c].listing)
       ELSE {}
  ELSE {}

C14_ReadBack ==
  \A c \in Clients : \A o \in Returned(c) : \A k \in ListColumns :
    /\ o.id \in DOMAIN given => o[k] = given[o.id][k]
    /\ \A form \in legacyForms : conventions[o.id][k] = SqlVal(form.text) => o[k] = form.list

(* C14: multi-valued field round trip.  A convention that getConvention or  *)
(* getAllConventions returns has, in province, partners and attachments,    *)
(* the list its createConvention was given, with the same elements in the   *)
(* same order, and the empty list for a field that was absent; and a        *)
(* column stored in a legacy form (a JSON list, a comma-separated text, a   *)
(* bare scalar) is returned as the list of its elements.                    *)
C14_RoundTrip == [][C14_ReadBack]_vars

\* a convention created with a province list whose elements hold a comma and
\* a quote has been read back by getConvention with that list
C14_Witness ==
  \E c \in Clients : \E o \in req[c].objects :
    /\ req[c].route = "convGet" /\ req[c].pc = "done" /\ req[c].status = 200
    /\ o.id \in DOMAIN given
    /\ o.province = <<<<"A", ",", "B">>, <<"\"">>>>
    /\ given[o.id].province = o.province

----------------------------------------------------------------------------
(* C15 *)

ChildTables == <<contributions, events>>

C15_Referenced ==
  \A t \in DOMAIN ChildTables : \A i \in DOMAIN ChildTables[t] :
    ChildTables[t][i].conventionId \in DOMAIN conventions

C15_DeleteAndFetch ==
  \A c \in Clients :
    LET done == req[c].pc = "handler" /\ req'[c].pc = "done"
        id == parseInt(req'[c].param)
    IN /\ (done /\ req[c].route = "convDelete" /\ req'[c].status = 200) =>
            /\ id \notin DOMAIN conventions'
            /\ \A i \in DOMAIN contributions' : contributions'[i].conventionId # id
            /\ \A i \in DOMAIN events' : events'[i].conventionId # id
            /\ \A i \in DOMAIN contributions : contributions[i].conventionId # id =>
                   i \in DOMAIN contributions' /\ contributions'[i] = contributions[i]
            /\ \A i \in DOMAIN events : events[i].conventionId # id =>
                   i \in DOMAIN events' /\ events'[i] = events[i]
       /\ (done /\ req[c].route \in {"fcList", "evList"} /\ id # NaN /\ id \notin DOMAIN conventions) =>
            req'[c].status = 200 /\ req'[c].objects = {}

(* C15: cascade delete.  In every state every financial contribution and   *)
(* every administrative event references a convention that exists; a        *)
(* DELETE of a convention removes the convention and every row of the two   *)
(* tables that references it, and no other row; and a list of either table  *)
(* for the id of a convention that does not exist returns the empty list.   *)
C15_Cascade == []C15_Referenced /\ [][C15_DeleteAndFetch]_vars

\* a contribution was created for convention 1, the convention has been
\* deleted, and the list of its contributions has come back empty
C15_Witness ==
  \E c, d \in Clients :
    /\ req[c].route = "fcCreate" /\ req[c].pc = "done" /\ req[c].status = 201
    /\ parseInt(req[c].param) = 1
    /\ 1 \notin DOMAIN conventions
    /\ req[d].route = "fcList" /\ req[d].pc = "done" /\ parseInt(req[d].param) = 1
    /\ req[d].status = 200 /\ req[d].objects = {}

----------------------------------------------------------------------------
(* C16 *)

C16_Creator ==
  /\ \A i \in DOMAIN conventions \cap DOMAIN conventions' :
       conventions'[i].createdBy = conventions[i].createdBy
  /\ \A c \in Clients :
       (req[c].route = "convCreate" /\ req[c].pc = "handler" /\ req'[c].pc = "done") =>
         \A i \in DOMAIN conventions' \ DOMAIN conventions :
           conventions'[i].createdBy = req[c].user.id

(* C16: createdBy is the creator.  The row a POST /api/conventions inserts  *)
(* has createdBy equal to the id of the principal of that request, whatever  *)
(* createdBy the body names, and no step changes the createdBy of a row.     *)
C16_CreatedBy == [][C16_Creator]_vars

\* a create whose body named another user as createdBy has inserted its row
C16_Witness ==
  \E c \in Clients :
    /\ req[c].route = "convCreate" /\ req[c].pc = "done" /\ req[c].status = 201
    /\ "createdBy" \in DOMAIN req[c].body /\ req[c].body.createdBy # req[c].user.id
    /\ \E i \in DOMAIN conventions : conventions[i].createdBy = req[c].user.id
                                     /\ conventions[i].conventionNumber = req[c].body.conventionNumber

----------------------------------------------------------------------------
(* C17 *)

\* the routes that take a convention id in their path
ConventionIdRoutes == {"convGet", "convUpdate", "convDelete", "convDownload", "fcList", "fcCreate"}

(* C17: malformed identifiers are rejected.  On every route that takes a    *)
(* convention id in its path, a request whose id is not numeric is answered  *)
(* 400.                                                                      *)
C17_MalformedId ==
  \A c \in Clients :
    (/\ req[c].route \in ConventionIdRoutes /\ req[c].pc = "done" /\ Ran(req[c], "handler")
     /\ parseInt(req[c].param) = NaN) => req[c].status = 400

----------------------------------------------------------------------------
(* C18 *)

\* the number has the form <int>/<int>
Parses(row) ==
  LET fields == split(row.conventionNumber, "/", 1, << << >> >>) IN
  /\ Len(fields) = 2
  /\ \A n \in 1..2 : fields[n] # << >> /\ Range(fields[n]) \subseteq Digits

YearOf(row) == ParseDigits(split_part(row.conventionNumber, "/", 2), 1, 0)
SequenceOf(row) == ParseDigits(split_part(row.conventionNumber, "/", 1), 1, 0)

C18_List ==
  \A c \in Clients :
    (req[c].route = "convList" /\ req[c].pc = "handler" /\ req'[c].pc = "done") =>
      LET l == req'[c].listing IN
      /\ req'[c].status = 200
      /\ \A id \in DOMAIN conventions :
           Cardinality({k \in DOMAIN l : l[k].id = id}) = 1 /\ \E k \in DOMAIN l : l[k] = ReadRow(conventions[id])
      /\ Len(l) = Cardinality(DOMAIN conventions)
      /\ \A i, j \in DOMAIN l :
           (i < j /\ Parses(l[i]) /\ Parses(l[j])) =>
             \/ YearOf(l[i]) > YearOf(l[j])
             \/ YearOf(l[i]) = YearOf(l[j]) /\ SequenceOf(l[i]) >= SequenceOf(l[j])
      /\ \A i, j \in DOMAIN l : (Parses(l[i]) /\ ~Parses(l[j])) => i < j

(* C18: the order of the listing.  GET /api/conventions answers 200 with    *)
(* every convention exactly once, those whose number parses as <int>/<int>  *)
(* in descending order of the year and then of the sequence, and every      *)
(* convention whose number does not parse after all of those.               *)
C18_ListingOrder == [][C18_List]_vars

----------------------------------------------------------------------------
(* C19 *)

\* the routes that write to or remove from the uploads directory
AttachmentMutations == {"upload", "uploadDelete"}

(* C19: attachment mutations need admin or editor.  A viewer's request on   *)
(* POST /api/upload or DELETE /api/upload/:filename is rejected with 403    *)
(* before its handler, so that it writes and removes no file.               *)
C19_ViewerRejected ==
  \A c \in Clients :
    (/\ req[c].route \in AttachmentMutations /\ req[c].pc = "done"
     /\ Ran(req[c], "attach") /\ req[c].user.role = "viewer") => Rejected(req[c], 403)

----------------------------------------------------------------------------
(* C20 *)

\* the absolute path a :filename stands for
Target(filename) == resolve(uploadsDir, normalize(filename))

\* a name that is refused: its normalized form holds '..', or is absolute, or
\* resolves outside the uploads directory
Escapes(filename) ==
  \/ ".." \in Range(normalize(filename).segs)
  \/ filename.abs
  \/ ~IsPrefix(uploadsDir, Target(filename))

C20_Delete ==
  \A c \in Clients :
    (req[c].route = "uploadDelete" /\ req[c].pc = "handler" /\ req'[c].pc = "done") =>
      /\ disk' \subseteq disk
      /\ \A f \in disk \ disk' : f = Target(req'[c].param) /\ IsPrefix(uploadsDir, f)
      /\ Escapes(req'[c].param) => disk' = disk
      /\ req'[c].status = 200

(* C20: path-traversal defence.  A DELETE /api/upload/:filename removes at  *)
(* most the file its normalized name resolves to, and only when that path   *)
(* is inside the uploads directory; for a name whose normalized form holds  *)
(* '..', is absolute or resolves outside, the disk is left as it was; and   *)
(* the answer is 200 in every case.                                         *)
C20_PathTraversal == [][C20_Delete]_vars

\* a delete of ../../etc/passwd has been answered 200 and the file is still there
C20_Witness ==
  \E c \in Clients :
    /\ req[c].route = "uploadDelete" /\ req[c].pc = "done" /\ req[c].status = 200
    /\ req[c].param = RelPath(<<"..", "..", "etc", "passwd">>)
    /\ Target(req[c].param) \in disk

----------------------------------------------------------------------------
(* C21 *)

\* the failure modes of an upload
TooLarge(files) == \E i \in DOMAIN files : files[i].size = "huge"
TooMany(files) == Len(files) > maxCount
BadType(files) == \E i \in DOMAIN files : files[i].mimetype \notin allowedTypes

FailureModes(files) ==
  {m \in {"size", "count", "type"} :
     \/ m = "size" /\ TooLarge(files)
     \/ m = "count" /\ TooMany(files)
     \/ m = "type" /\ BadType(files)}

\* the answer to an upload, as far as its status and error code
Answer(r) == [status |-> r.status, error |-> r.error]

(* C21: upload failure modes are distinguishable.  An upload that fails in  *)
(* one mode (a file too large, more than 5 files, a type that is not        *)
(* allowed) is answered with a status and error code that differ from the   *)
(* answer to an upload failing in another mode and from the answer to an    *)
(* internal error.                                                          *)
C21_DistinctErrors ==
  \A c \in Clients :
    (req[c].route = "upload" /\ req[c].pc = "done" /\ Ran(req[c], "handler")
     /\ Cardinality(FailureModes(req[c].body)) = 1) =>
      /\ Answer(req[c]) # internalError
      /\ \A files \in UploadBatches :
           (Cardinality(FailureModes(files)) = 1 /\ FailureModes(files) # FailureModes(req[c].body))
             => Answer(req[c]) # uploadRejection(multerError(files, 1))

----------------------------------------------------------------------------
(* C22 *)

C22_InFlight == running <= MAX_TRANSFORMS

C22_Rejects ==
  \A d \in DevClients :
    (devReq[d].pc # "awaiting" /\ devReq'[d] # devReq[d] /\ running >= MAX_TRANSFORMS) =>
      devReq'[d].pc = "done" /\ devReq'[d].status \in {429, 500} /\ running' = running

(* C22: global transform cap.  At every moment at most MAX_TRANSFORMS calls *)
(* of transformIndexHtml are running, over all the requests to the dev      *)
(* catch-all route; a request that reaches the throttle when that many are  *)
(* running is answered 429 and starts no call.                              *)
C22_GlobalCap == []C22_InFlight /\ [][C22_Rejects]_vars

----------------------------------------------------------------------------
(* C23 *)

C23_Counter ==
  /\ activeTransforms \in 0..MAX_TRANSFORMS
  /\ activeTransforms = Cardinality(Awaiting)

C23_GivesBack ==
  /\ \A d \in DevClients :
       (devReq[d].pc = "awaiting" /\ devReq'[d].pc # "awaiting") =>
         /\ devReq'[d].pc = "done" /\ devReq'[d].status \in {200, 500}
         /\ activeTransforms' = activeTransforms - 1
  /\ activeTransforms' < activeTransforms =>
       \E d \in DevClients : devReq[d].pc = "awaiting" /\ devReq'[d].pc = "done"

(* C23: the slot is given back.  Every request that has taken a transform   *)
(* slot eventually finishes, with 200 or with an error; the step that ends  *)
(* it, whether the transform resolved, threw or lost against the timer,     *)
(* lowers activeTransforms by one, and nothing else lowers it; so           *)
(* activeTransforms stays within 0..MAX_TRANSFORMS and equals the number of *)
(* requests awaiting a transform, 0 when there is none.                     *)
C23_SlotReturned ==
  /\ []C23_Counter
  /\ [][C23_GivesBack]_vars
  /\ \A d \in DevClients : (devReq[d].pc = "awaiting") ~> (devReq[d].pc = "done")

\* a request has failed on the timer (its call is still running) and no
\* request holds a slot
C23_Witness ==
  /\ Orphans > 0
  /\ \E d \in DevClients : devReq[d].pc = "done" /\ devReq[d].status = 500
  /\ Awaiting = {}
  /\ activeTransforms = 0

----------------------------------------------------------------------------
(* C24: the stored password of every user is a salted hash, never the
   plaintext: after createUser, after the seed, and after every
   PUT /api/users/:id that carries a password *)

\* C24: the password column of every stored user holds a bcrypt hash
C24_PasswordHashed ==
  \A i \in DOMAIN users : users[i].password.kind = "bcrypt"

----------------------------------------------------------------------------
(* C25: every stored user has exactly one role, one of admin, editor and
   viewer; no POST or PUT on /api/users stores another role string *)

\* C25: the role column of every stored user is one of the three roles
C25_RoleInEnum ==
  \A i \in DOMAIN users : users[i].role \in Roles

----------------------------------------------------------------------------
(* C26: the session payload written by a successful login holds the user  *)
(* id and a snapshot of the public profile fields only, never the         *)
(* password hash                                                          *)

\* the session a login has just written holds the user id and the public fields
C26_Login ==
  \A c \in Clients :
    (req[c].route = "login" /\ req[c].pc = "handler" /\ req'[c].pc = "done"
       /\ req'[c].status = 200) =>
      LET payload == sessions'[cookie'[c]] IN
      /\ payload.userId = req'[c].user.id
      /\ DOMAIN payload.user \subseteq publicUserKeys
      /\ "password" \notin DOMAIN payload.user

\* C26: a successful login stores the user id and a snapshot of the public
\* profile fields only in the session, never the password hash
C26_PublicSnapshot == [][C26_Login]_vars

----------------------------------------------------------------------------
(* C27 *)

\* usernames are unique, and so are the emails that are not NULL
C27_Unique ==
  \A i, j \in DOMAIN users :
     i # j => /\ users[i].username # users[j].username
              /\ (users[i].email # "" => users[i].email # users[j].email)

\* the body names a username, or an email that is not NULL, that a stored user has
C27_Duplicate(body) ==
  \E i \in DOMAIN users :
     \/ users[i].username = body.username
     \/ ("email" \in DOMAIN body /\ body.email # "" /\ users[i].email = body.email)

C27_Create ==
  \A c \in Clients :
    (/\ req[c].route = "usersCreate" /\ req[c].pc = "handler" /\ req'[c].pc = "done"
     /\ ~CreateUserInvalid(req'[c].body)
     /\ C27_Duplicate(req'[c].body)) =>
       (users' = users /\ req'[c].status \in 400..499)

(* C27: a duplicate username or email is a Conflict.  A create whose        *)
(* username, or email that is not NULL, is that of a stored user leaves the *)
(* table as it was and is answered with a status of its own, not the        *)
(* generic 500 of an internal error; usernames and emails stay unique.      *)
C27_UserConflict == []C27_Unique /\ [][C27_Create]_vars

----------------------------------------------------------------------------
(* C28 *)

\* a later run of the seed leaves the users and the conventions as they were
C28_Rerun ==
  Restart => /\ DOMAIN users' = DOMAIN users
             /\ DOMAIN conventions' = DOMAIN conventions
             /\ \A i \in DOMAIN users : users'[i] = users[i]
             /\ \A i \in DOMAIN conventions : conventions'[i] = conventions[i]

(* C28: the seed is idempotent.  It creates the default users and the       *)
(* sample conventions on the first start only: every later run, at each     *)
(* start of the server, adds no user and no convention and changes no       *)
(* existing row, whatever requests were handled in between.                 *)
C28_SeedIdempotent == [][C28_Rerun]_vars

\* a later run of the seed changes no row that exists
C28_KeepsRows ==
  [][Restart => /\ \A i \in DOMAIN users : i \in DOMAIN users' /\ users'[i] = users[i]
                /\ \A i \in DOMAIN conventions :
                      i \in DOMAIN conventions' /\ conventions'[i] = conventions[i]]_vars

----------------------------------------------------------------------------
(* C29 *)

\* a PUT of a convention that exists, with a body that passes the schema and
\* a number no other convention has
C29_Update ==
  \A c \in Clients :
    LET id == parseInt(req'[c].param)
        updateData == Strip(req'[c].body, insertConventionKeys)
    IN (/\ req[c].route = "convUpdate" /\ req[c].pc = "handler" /\ req'[c].pc = "done"
        /\ id # NaN /\ id \in DOMAIN conventions
        /\ ~("conventionNumber" \in DOMAIN updateData
             /\ ConvConflict(conventions, updateData.conventionNumber, {id}))) =>
         /\ req'[c].status = 200
         /\ DOMAIN conventions' = DOMAIN conventions
         /\ \A k \in DOMAIN conventions[id] :
              IF k \notin DOMAIN updateData THEN conventions'[id][k] = conventions[id][k]
              ELSE IF k = "amount" THEN conventions'[id][k] = SqlVal(updateData[k])
              ELSE IF k \in ListColumns THEN parseArray(conventions'[id][k]) = updateData[k]
              ELSE conventions'[id][k] = updateData[k]
         /\ \A i \in DOMAIN conventions \ {id} : conventions'[i] = conventions[i]

(* C29: a partial update touches the supplied fields only.  A PUT          *)
(* /api/conventions/:id whose body holds some of the fields is answered    *)
(* 200 and gives those fields their new values; every field the body does  *)
(* not hold, amount, province, partners and attachments among them, keeps  *)
(* its value, and no other convention is changed.                          *)
C29_PartialUpdate == [][C29_Update]_vars

\* whatever the answer of a PUT, the conventions other than :id stay as they were
C29_OthersKept ==
  [][\A c \in Clients :
       (req[c].route = "convUpdate" /\ req[c].pc = "handler" /\ req'[c].pc = "done") =>
         /\ DOMAIN conventions' = DOMAIN conventions
         /\ \A i \in DOMAIN conventions :
              i # parseInt(req'[c].param) => conventions'[i] = conventions[i]]_vars

----------------------------------------------------------------------------
(* C30 *)

(* C30: the last admin cannot be removed.  From the seeded state, after    *)
(* any sequence or interleaving of user-management requests there is a     *)
(* user whose role is admin and who is active.                             *)
C30_ActiveAdmin ==
  \E i \in DOMAIN users : users[i].role = "admin" /\ users[i].isActive = "true"

====
